---- MODULE Spec2Model ----
(***************************************************************************)
(* Gamification scoring and leaderboard engine                             *)
(* (sensai-ai/src/api/db/gamification.py and its routes).                  *)
(*                                                                         *)
(* The relational store is modelled table by table; a table is the         *)
(* sequence of its rows in rowid order, so a row's id is its index         *)
(* (INTEGER PRIMARY KEY AUTOINCREMENT, rows are never deleted except by    *)
(* INSERT OR REPLACE on the cache, which keeps an explicit id).            *)
(*                                                                         *)
(* Time is a count of ticks.  One tick is one hour; a calendar day is      *)
(* DayTicks ticks.  datetime.now() is the variable now.                    *)
(*                                                                         *)
(* Python None and SQL NULL are the empty tuple; a present value v is the  *)
(* one-element tuple <<v>>.                                                *)
(***************************************************************************)
EXTENDS Integers, Sequences, FiniteSets

VARIABLES
    now,                \* the wall clock, in ticks
    learning_sessions,  \* table learning_sessions
    quest_completions,  \* table quest_completions
    weekly_quests,      \* table weekly_quests
    grace_tokens,       \* table grace_tokens
    leaderboard_cache,  \* table leaderboard_cache
    cache_seq,          \* AUTOINCREMENT counter of leaderboard_cache
    ret,                \* what the last operation returned to its caller
    lastCompute,        \* history: the last computeProgress call and its result,
                        \* forgotten at the next session write
    inflight            \* the calls suspended at an await between two database
                        \* operations, and the outcome of those that returned

vars == <<now, learning_sessions, quest_completions, weekly_quests, grace_tokens,
          leaderboard_cache, cache_seq, ret, lastCompute, inflight>>

stores == <<learning_sessions, quest_completions, weekly_quests, grace_tokens,
            leaderboard_cache, cache_seq>>

----------------------------------------------------------------------------
(* Bounds of the model *)

NumUsers == 2
MaxNow == 4
DayTicks == 2
MaxTokens == 2
MaxExpiresDays == 1
MaxCacheRows == 2
MaxStores == 3
MaxSessions == 2
NumQuests == 2
MaxDays == 37
NumCallers == 2

Users == 1..NumUsers

\* cache lifetimes, in hours, of the read path and of the admin refresh
ReadTtlHours == 1
RefreshTtlHours == 2
\* the windows of calculate_leaderboard, in days
WeeklyDays == 7
MonthlyDays == 30
\* the default of the limit parameter of calculate_leaderboard
DefaultLimit == 100
\* the default of the days parameter of get_user_session_metrics
DefaultMetricDays == 7

----------------------------------------------------------------------------
(* Optional values *)

NULL == <<>>

Some(v) == <<v>>

IsNull(x) == x = NULL

Val(x) == x[1]

\* timedelta(days=d) and timedelta(hours=h), in ticks
Days(d) == d * DayTicks

Hours(h) == h

\* every ordering of the finite set S
Orderings(S) ==
    {f \in [1..Cardinality(S) -> S] : \A i, j \in DOMAIN f : i # j => f[i] # f[j]}

----------------------------------------------------------------------------
(* Grace token ledger *)

\* INSERT INTO grace_tokens (user_id, token_type, reason, quest_id, session_id,
\* expires_at): is_used defaults to FALSE, used_date to NULL, granted_date to
\* CURRENT_TIMESTAMP.  token_type, reason, quest_id and session_id are written
\* once and read by no operation of the engine; they are left out of the row.
NewToken_Used(user_id, expires_at) ==
    [user_id |-> user_id, granted_date |-> now, used_date |-> NULL,
     is_used |-> TRUE, expires_at |-> expires_at]

NewToken(user_id, expires_at) ==
    [user_id |-> user_id, granted_date |-> now, used_date |-> NULL,
     is_used |-> FALSE, expires_at |-> expires_at]

\* grant_grace_token
GrantToken(user_id, expires_days) ==
    /\ Len(grace_tokens) < MaxTokens
    /\ LET expires_at == now + Days(expires_days)
       IN  /\ grace_tokens' = Append(grace_tokens, NewToken(user_id, Some(expires_at)))
           /\ ret' = [op |-> "grant", token_id |-> Len(grace_tokens) + 1]
    /\ UNCHANGED <<weekly_quests, inflight, now, learning_sessions, quest_completions, leaderboard_cache,
                   cache_seq, lastCompute>>

\* the WHERE clause added by unused_only
UnusedFilter_ExpiryIgnored(tok, t) == ~tok.is_used

UnusedFilter(tok, t) ==
    /\ ~tok.is_used
    /\ (IsNull(tok.expires_at) \/ Val(tok.expires_at) > t)

\* the rows get_user_grace_tokens selects
TokenRows(user_id, unused_only) ==
    {i \in DOMAIN grace_tokens :
        /\ grace_tokens[i].user_id = user_id
        /\ (unused_only => UnusedFilter(grace_tokens[i], now))}

\* ORDER BY granted_date DESC; rows granted at the same instant come in any order
TokenListings(user_id, unused_only) ==
    {f \in Orderings(TokenRows(user_id, unused_only)) :
        \A i, j \in DOMAIN f :
            i < j => grace_tokens[f[i]].granted_date >= grace_tokens[f[j]].granted_date}

\* get_user_grace_tokens
ListTokens(user_id, unused_only) ==
    /\ \E listing \in TokenListings(user_id, unused_only) :
          ret' = [op |-> "listTokens", user_id |-> user_id,
                  unused_only |-> unused_only, ids |-> listing]
    /\ UNCHANGED <<inflight, now, stores, lastCompute>>

\* "if not token or token[1]": no row with that id, or the row is already used
TokenUnusable_UsedIgnored(token_id) == token_id \notin DOMAIN grace_tokens

TokenUnusable(token_id) ==
    \/ token_id \notin DOMAIN grace_tokens
    \/ grace_tokens[token_id].is_used

\* "token[2] and datetime.fromisoformat(token[2]) < datetime.now()"
TokenExpired_Never(expires_at, t) == FALSE

TokenExpired(expires_at, t) ==
    /\ ~IsNull(expires_at)
    /\ Val(expires_at) < t

\* use_grace_token; usage_reason is accepted and written nowhere
UseToken(token_id) ==
    /\ IF TokenUnusable(token_id)
       THEN /\ ret' = [op |-> "redeem", token_id |-> token_id, ok |-> FALSE]
            /\ UNCHANGED grace_tokens
       ELSE IF TokenExpired(grace_tokens[token_id].expires_at, now)
       THEN /\ ret' = [op |-> "redeem", token_id |-> token_id, ok |-> FALSE]
            /\ UNCHANGED grace_tokens
       ELSE /\ grace_tokens' = [grace_tokens EXCEPT
                                   ![token_id].is_used = TRUE,
                                   ![token_id].used_date = Some(now)]
            /\ ret' = [op |-> "redeem", token_id |-> token_id, ok |-> TRUE]
    /\ UNCHANGED <<weekly_quests, inflight, now, learning_sessions, quest_completions, leaderboard_cache,
                   cache_seq, lastCompute>>

----------------------------------------------------------------------------
(* Leaderboard cache *)

LeaderboardTypes == {"course", "cohort", "topic", "campus", "global"}

TimePeriods == {"weekly", "monthly", "all_time"}

\* A LeaderboardData dict as calculate_leaderboard builds it.  last_updated is
\* [datetime |-> t] for a datetime object and [isoformat |-> t] for its text.
LeaderboardDict(leaderboard_type, scope_id, time_period, entries, last_updated) ==
    [leaderboard_type |-> leaderboard_type, scope_id |-> scope_id,
     time_period |-> time_period, entries |-> entries,
     last_updated |-> last_updated, total_participants |-> Len(entries)]

\* json.dumps has no encoder for datetime and raises TypeError on one; str
\* enums, ints, floats, lists, dicts and None are encoded.
JsonSerializable(data) == "datetime" \notin DOMAIN data.last_updated

\* json.dumps(data): the text, tagged as text
JsonDumps(data) == [json |-> data]

\* json.loads(text)
JsonLoads(text) == text.json

\* "scope_id = ?" and the UNIQUE index compare with SQL equality, under which
\* NULL equals nothing, NULL included
SqlEq(a, b) == ~IsNull(a) /\ ~IsNull(b) /\ a = b

\* the rows INSERT OR REPLACE deletes: those the new row collides with on
\* UNIQUE(leaderboard_type, scope_id, time_period)
CacheConflicts(data) ==
    {i \in DOMAIN leaderboard_cache :
        /\ leaderboard_cache[i].leaderboard_type = data.leaderboard_type
        /\ SqlEq(leaderboard_cache[i].scope_id, data.scope_id)
        /\ leaderboard_cache[i].time_period = data.time_period}

\* the subsequence of s at the indices not in drop
RECURSIVE Without(_, _, _)
Without(s, drop, i) ==
    IF i > Len(s) THEN <<>>
    ELSE (IF i \in drop THEN <<>> ELSE <<s[i]>>) \o Without(s, drop, i + 1)

\* cache_leaderboard
CacheLeaderboard(data, expires_hours) ==
    /\ IF ~JsonSerializable(data)
       THEN /\ ret' = [op |-> "store", raised |-> TRUE]
            /\ UNCHANGED <<leaderboard_cache, cache_seq>>
       ELSE LET expires_at == now + Hours(expires_hours)
                kept == Without(leaderboard_cache, CacheConflicts(data), 1)
                row == [id |-> cache_seq + 1,
                        leaderboard_type |-> data.leaderboard_type,
                        scope_id |-> data.scope_id,
                        time_period |-> data.time_period,
                        leaderboard_data |-> JsonDumps(data),
                        expires_at |-> expires_at]
            IN  /\ cache_seq < MaxStores
                /\ Len(kept) < MaxCacheRows
                /\ leaderboard_cache' = Append(kept, row)
                /\ cache_seq' = cache_seq + 1
                /\ ret' = [op |-> "store", raised |-> FALSE,
                           cache_id |-> cache_seq + 1, data |-> data,
                           expires_at |-> expires_at]
    /\ UNCHANGED <<weekly_quests, inflight, now, learning_sessions, quest_completions, grace_tokens,
                   lastCompute>>

\* "expires_at > ?" with datetime.now()
CacheFresh_Inclusive(expires_at, t) == expires_at >= t

CacheFresh(expires_at, t) == expires_at > t

\* the rows get_cached_leaderboard selects
CachedRows(leaderboard_type, time_period, scope_id) ==
    {i \in DOMAIN leaderboard_cache :
        /\ leaderboard_cache[i].leaderboard_type = leaderboard_type
        /\ leaderboard_cache[i].time_period = time_period
        /\ SqlEq(leaderboard_cache[i].scope_id, scope_id)
        /\ CacheFresh(leaderboard_cache[i].expires_at, now)}

\* get_cached_leaderboard: fetch_one takes a selected row, None when there is none
GetCachedLeaderboard(leaderboard_type, time_period, scope_id) ==
    /\ LET rows == CachedRows(leaderboard_type, time_period, scope_id)
           key == [leaderboard_type |-> leaderboard_type, scope_id |-> scope_id,
                   time_period |-> time_period]
       IN  IF rows = {}
           THEN ret' = [op |-> "readCache", key |-> key, hit |-> FALSE]
           ELSE \E i \in rows :
                   ret' = [op |-> "readCache", key |-> key, hit |-> TRUE,
                           data |-> JsonLoads(leaderboard_cache[i].leaderboard_data)]
    /\ UNCHANGED <<inflight, now, stores, lastCompute>>

----------------------------------------------------------------------------
(* Session ledger *)

SessionQualities == {"high", "medium", "low"}

\* INSERT INTO learning_sessions (user_id, task_id, question_id, session_start):
\* the other columns take the defaults of the table.  task_id, question_id and
\* created_at are written once and read by no computation; they are left out.
NewSession(user_id, session_start) ==
    [user_id |-> user_id, session_start |-> session_start, session_end |-> NULL,
     total_minutes |-> 0, active_minutes |-> 0, interactions_count |-> 0,
     learning_velocity |-> 0, session_quality |-> "medium", is_completed |-> FALSE]

\* create_learning_session
CreateLearningSession(user_id) ==
    /\ Len(learning_sessions) < MaxSessions
    /\ learning_sessions' = Append(learning_sessions, NewSession(user_id, now))
    /\ ret' = [op |-> "startSession", session_id |-> Len(learning_sessions) + 1]
    /\ lastCompute' = NULL
    /\ UNCHANGED <<weekly_quests, inflight, now, quest_completions, grace_tokens, leaderboard_cache, cache_seq>>

UpdateFields ==
    {"session_end", "total_minutes", "active_minutes", "interactions_count",
     "learning_velocity", "session_quality", "is_completed"}

\* the keyword arguments of update_learning_session, each None unless given
NoFields == [f \in UpdateFields |-> NULL]

\* "if x is not None: updates.append(...)"
SuppliedFields(request) == {f \in UpdateFields : ~IsNull(request[f])}

\* the row after a full replace: fields not supplied fall back to the defaults
\* of a new session
UpdatedSession_FullReplace(row, request) ==
    [c \in DOMAIN row |->
        IF c \notin UpdateFields THEN row[c]
        ELSE IF c \notin SuppliedFields(request)
        THEN NewSession(row.user_id, row.session_start)[c]
        ELSE IF c = "session_end" THEN request[c]
        ELSE Val(request[c])]

\* the row after "UPDATE ... SET <the supplied fields>"
UpdatedSession(row, request) ==
    [c \in DOMAIN row |->
        IF c \notin SuppliedFields(request) THEN row[c]
        ELSE IF c = "session_end" THEN request[c]   \* a nullable column
        ELSE Val(request[c])]

\* update_learning_session without its "if not updates: return False"
UpdateLearningSession_NoEmptyCheck(session_id, request) ==
    /\ learning_sessions' =
          [i \in DOMAIN learning_sessions |->
              IF i = session_id THEN UpdatedSession(learning_sessions[i], request)
              ELSE learning_sessions[i]]
    /\ ret' = [op |-> "updateSession", session_id |-> session_id,
               request |-> request, ok |-> TRUE]
    /\ lastCompute' = NULL
    /\ UNCHANGED <<weekly_quests, inflight, now, quest_completions, grace_tokens, leaderboard_cache, cache_seq>>

\* update_learning_session
UpdateLearningSession(session_id, request) ==
    /\ IF SuppliedFields(request) = {}
       THEN /\ ret' = [op |-> "updateSession", session_id |-> session_id,
                       request |-> request, ok |-> FALSE]
            /\ UNCHANGED <<learning_sessions, lastCompute>>
       ELSE /\ learning_sessions' =
                  [i \in DOMAIN learning_sessions |->
                      IF i = session_id
                      THEN UpdatedSession(learning_sessions[i], request)
                      ELSE learning_sessions[i]]
            /\ ret' = [op |-> "updateSession", session_id |-> session_id,
                       request |-> request, ok |-> TRUE]
            /\ lastCompute' = NULL
    /\ UNCHANGED <<weekly_quests, inflight, now, quest_completions, grace_tokens, leaderboard_cache, cache_seq>>

----------------------------------------------------------------------------
(* Exact fractions for the float arithmetic of the scoring: <<n, d>>, d > 0,
   in lowest terms *)

Abs(x) == IF x < 0 THEN -x ELSE x

RECURSIVE Gcd(_, _)
Gcd(a, b) == IF b = 0 THEN a ELSE Gcd(b, a % b)

Frac(n, d) ==
    LET g == Gcd(Abs(n), Abs(d))
        sgn == IF d < 0 THEN -1 ELSE 1
    IN  <<(sgn * n) \div g, (sgn * d) \div g>>

One == <<1, 1>>

Zero == <<0, 1>>

FracDiv(x, y) == Frac(x[1] * y[2], x[2] * y[1])

FracAdd(x, y) == Frac(x[1] * y[2] + y[1] * x[2], x[2] * y[2])

FracLess(x, y) == x[1] * y[2] < y[1] * x[2]

FracMin(x, y) == IF FracLess(y, x) THEN y ELSE x

RECURSIVE FracSum(_)
FracSum(s) == IF s = <<>> THEN Zero ELSE FracAdd(Head(s), FracSum(Tail(s)))

----------------------------------------------------------------------------
(* Quest progress engine *)

\* "CASE WHEN session_quality = 'high' THEN 3.0 ... 'medium' 2.0 ... 'low' 1.0"
QualityWeight_ZeroBased(q) == IF q = "high" THEN 2 ELSE IF q = "medium" THEN 1 ELSE 0
QualityWeight(q) == IF q = "high" THEN 3 ELSE IF q = "medium" THEN 2 ELSE 1

\* datetime.combine(quest.week_start, datetime.min.time()) and
\* datetime.combine(quest.week_end, datetime.max.time()): the first and the
\* last instant of those days
WeekStart(quest) == Days(quest.week_start)

WeekEnd(quest) == Days(quest.week_end + 1) - 1

\* "WHERE user_id = ? AND session_start BETWEEN ? AND ?"
InQuestWeek_Rolling(row, quest) == row.session_start >= now - Days(1)

InQuestWeek_OpenEnded(row, quest) == WeekStart(quest) <= row.session_start

InQuestWeek(row, quest) ==
    /\ WeekStart(quest) <= row.session_start
    /\ row.session_start <= WeekEnd(quest)

QuestSessions(user_id, quest) ==
    {i \in DOMAIN learning_sessions :
        /\ learning_sessions[i].user_id = user_id
        /\ InQuestWeek(learning_sessions[i], quest)}

\* the sum of f[i] over the indices i in S
RECURSIVE SumOver(_, _)
SumOver(S, f) ==
    IF S = {} THEN 0
    ELSE LET i == CHOOSE j \in S : TRUE IN f[i] + SumOver(S \ {i}, f)

\* DATE(session_start)
DateOf(t) == t \div DayTicks

\* the aggregate row of the SELECT, with "or 0" applied to each column
SessionMetrics(user_id, quest) ==
    LET S == QuestSessions(user_id, quest)
        minutes == [i \in S |-> learning_sessions[i].active_minutes]
        weight == [i \in S |-> QualityWeight(learning_sessions[i].session_quality)]
    IN  [total_active_minutes |-> SumOver(S, minutes),
         avg_quality_score |-> IF S = {} THEN Zero
                                ELSE Frac(SumOver(S, weight), Cardinality(S)),
         consistency_days |->
             Cardinality({DateOf(learning_sessions[i].session_start) : i \in S})]

\* "min(1.0, observed / target) if target > 0 else 1.0"
GuardedScore_UnobservedMet(observed, target) ==
    IF FracLess(Zero, target) /\ FracLess(Zero, observed)
    THEN FracMin(One, FracDiv(observed, target)) ELSE One

GuardedScore(observed, target) ==
    IF FracLess(Zero, target) THEN FracMin(One, FracDiv(observed, target)) ELSE One

\* "min(1.0, active_minutes / req.active_minutes)": the division is not guarded
DivisionByZero(quest) == quest.requirements.active_minutes = 0

\* calculate_quest_progress from the fetched aggregate row m on, when it returns
ProgressOf(m, quest) ==
    LET req == quest.requirements
        active_minutes == m.total_active_minutes
        avg_quality == FracDiv(m.avg_quality_score, <<3, 1>>)
        dp_passes == 0
        peer_reviews == 0
        progress_scores ==
            << FracMin(One, Frac(active_minutes, req.active_minutes)),
               GuardedScore(<<dp_passes, 1>>, <<req.dp_passes, 1>>),
               GuardedScore(<<peer_reviews, 1>>, <<req.peer_reviews, 1>>),
               GuardedScore(avg_quality, req.session_quality),
               GuardedScore(<<m.consistency_days, 1>>, <<req.consistency_days, 1>>) >>
    IN  [raised |-> FALSE,
         scores |-> progress_scores,
         progress |->
            [active_minutes |-> active_minutes, dp_passes |-> dp_passes,
             peer_reviews |-> peer_reviews, avg_session_quality |-> avg_quality,
             consistency_days |-> m.consistency_days,
             completion_percentage |->
                 FracDiv(FracSum(progress_scores), <<Len(progress_scores), 1>>)]]

\* calculate_quest_progress, when it returns
QuestProgress(user_id, quest) == ProgressOf(SessionMetrics(user_id, quest), quest)

\* calculate_quest_progress: its result, or the ZeroDivisionError it raises
QuestProgressResult(user_id, quest) ==
    IF DivisionByZero(quest) THEN [raised |-> TRUE] ELSE QuestProgress(user_id, quest)

CalculateQuestProgress(user_id, quest) ==
    /\ LET result == QuestProgressResult(user_id, quest)
           repeat == /\ ~IsNull(lastCompute)
                     /\ Val(lastCompute).user_id = user_id
                     /\ Val(lastCompute).quest = quest
       IN  /\ ret' = [op |-> "computeProgress", user_id |-> user_id, quest |-> quest,
                      result |-> result, repeat |-> repeat]
           /\ lastCompute' =
                 IF repeat THEN lastCompute
                 ELSE Some([user_id |-> user_id, quest |-> quest, result |-> result])
    /\ UNCHANGED <<inflight, now, stores>>

----------------------------------------------------------------------------
(* The clock *)

Tick ==
    /\ now < MaxNow
    /\ now' = now + 1
    /\ ret' = [op |-> "tick"]
    /\ UNCHANGED <<inflight, stores, lastCompute>>

----------------------------------------------------------------------------
(* Initial states *)

\* The tables as the setup scripts create them: empty.
Init ==
    /\ now = 0
    /\ learning_sessions = <<>>
    /\ quest_completions = <<>>
    /\ grace_tokens = <<>>
    /\ leaderboard_cache = <<>>
    /\ cache_seq = 0
    /\ ret = [op |-> "none"]
    /\ lastCompute = NULL
    /\ inflight = <<>>
    /\ weekly_quests = <<>>

\* The grace_tokens table declares expires_at nullable and the engine reads it
\* as such; a ledger may hold a token without expiry written against that schema.
TokenSeeds ==
    {<<>>,
     <<[user_id |-> 1, granted_date |-> 0, used_date |-> NULL,
        is_used |-> FALSE, expires_at |-> NULL]>>}

InitToken ==
    /\ now = 0
    /\ learning_sessions = <<>>
    /\ quest_completions = <<>>
    /\ grace_tokens \in TokenSeeds
    /\ leaderboard_cache = <<>>
    /\ cache_seq = 0
    /\ ret = [op |-> "none"]
    /\ lastCompute = NULL
    /\ inflight = <<>>
    /\ weekly_quests = <<>>

NextToken ==
    \/ \E u \in Users, d \in 1..MaxExpiresDays : GrantToken(u, d)
    \/ \E u \in Users, b \in BOOLEAN : ListTokens(u, b)
    \/ \E t \in 1..(MaxTokens + 1) : UseToken(t)
    \/ Tick

SpecToken == InitToken /\ [][NextToken]_vars

\* The keys and payloads the cache operations are driven with: a key without
\* scope, and two keys of one scope that differ in the period.
CacheKeys ==
    {[leaderboard_type |-> "global", scope_id |-> NULL, time_period |-> "weekly"],
     [leaderboard_type |-> "cohort", scope_id |-> Some(1), time_period |-> "weekly"],
     [leaderboard_type |-> "cohort", scope_id |-> Some(1), time_period |-> "monthly"]}

SampleEntries ==
    {<<>>,
     <<[user_id |-> 1, rank |-> 1, score |-> 5, active_minutes |-> 5,
        quests_completed |-> 0]>>}

\* the dicts handed to cache_leaderboard: with last_updated rendered as text,
\* and as calculate_leaderboard returns them (last_updated a datetime)
CacheInputs ==
    {LeaderboardDict(k.leaderboard_type, k.scope_id, k.time_period, en,
                     [isoformat |-> 0]) : k \in CacheKeys, en \in SampleEntries}
    \cup
    {LeaderboardDict(k.leaderboard_type, k.scope_id, k.time_period, <<>>,
                     [datetime |-> now]) : k \in CacheKeys}

CacheTtlHours == {ReadTtlHours, RefreshTtlHours}

NextCache ==
    \/ \E d \in CacheInputs, h \in CacheTtlHours : CacheLeaderboard(d, h)
    \/ \E k \in CacheKeys :
          GetCachedLeaderboard(k.leaderboard_type, k.time_period, k.scope_id)
    \/ Tick

SpecCache == Init /\ [][NextCache]_vars

----------------------------------------------------------------------------
(* The session ledger driven by progress pings, and quests scored against it *)

\* the updates a client sends while a session runs: nothing, a progress ping,
\* a quality classification
SessionUpdates ==
    {NoFields,
     [NoFields EXCEPT !.active_minutes = Some(3)],
     [NoFields EXCEPT !.session_quality = Some("high")]}

Requirements(am, dp, pr, sq, cd) ==
    [active_minutes |-> am, dp_passes |-> dp, peer_reviews |-> pr,
     session_quality |-> sq, consistency_days |-> cd]

\* Quests of the first day whose requirements have every dimension positive,
\* every dimension at target 0, or two dimensions at target 0, and a quest over
\* the whole modelled calendar that a learner can complete.
SampleQuests ==
    {[id |-> 1, week_start |-> 0, week_end |-> 0,
      requirements |-> Requirements(3, 3, 1, <<4, 5>>, 2)],
     [id |-> 2, week_start |-> 0, week_end |-> 0,
      requirements |-> Requirements(0, 0, 0, Zero, 0)],
     [id |-> 3, week_start |-> 0, week_end |-> 0,
      requirements |-> Requirements(3, 3, 1, Zero, 0)],
     [id |-> 4, week_start |-> 0, week_end |-> MaxNow \div DayTicks,
      requirements |-> Requirements(3, 0, 0, <<4, 5>>, 2)]}

NextQuest ==
    \/ \E u \in Users : CreateLearningSession(u)
    \/ \E i \in 1..(MaxSessions + 1), r \in SessionUpdates : UpdateLearningSession(i, r)
    \/ \E u \in Users, q \in SampleQuests : CalculateQuestProgress(u, q)
    \/ Tick

SpecQuest == Init /\ [][NextQuest]_vars

----------------------------------------------------------------------------
(* Session metrics beside quest scoring *)

\* the rows "WHERE user_id = ? AND session_start >= ?" with
\* since_date = datetime.now() - timedelta(days=days)
MetricSessions(user_id, days) ==
    {i \in DOMAIN learning_sessions :
        /\ learning_sessions[i].user_id = user_id
        /\ learning_sessions[i].session_start >= now - Days(days)}

\* the dict of get_user_session_metrics: every aggregate that is NULL over no
\* row, or 0, is returned as 0
UserSessionMetrics(user_id, days) ==
    LET S == MetricSessions(user_id, days)
        minutes == [i \in S |-> learning_sessions[i].active_minutes]
        velocity == [i \in S |-> learning_sessions[i].learning_velocity]
        weight == [i \in S |-> QualityWeight(learning_sessions[i].session_quality)]
    IN  [total_sessions |-> Cardinality(S),
         total_active_minutes |-> SumOver(S, minutes),
         avg_velocity |-> IF S = {} THEN Zero
                          ELSE Frac(SumOver(S, velocity), Cardinality(S)),
         avg_quality_score |-> IF S = {} THEN Zero
                               ELSE Frac(SumOver(S, weight), Cardinality(S)),
         completed_sessions |->
             Cardinality({i \in S : learning_sessions[i].is_completed})]

\* get_user_session_metrics
GetUserSessionMetrics(user_id, days) ==
    /\ ret' = [op |-> "sessionMetrics", user_id |-> user_id, days |-> days,
               metrics |-> UserSessionMetrics(user_id, days)]
    /\ UNCHANGED <<inflight, now, stores, lastCompute>>

\* a learner's three sessions of the first hour, one of each quality
QualitySeeds ==
    {<<>>,
     <<[NewSession(1, 0) EXCEPT !.session_quality = "high"],
       NewSession(1, 0),
       [NewSession(1, 0) EXCEPT !.session_quality = "low"]>>}

InitMetrics ==
    /\ now = 0
    /\ learning_sessions \in QualitySeeds
    /\ quest_completions = <<>>
    /\ grace_tokens = <<>>
    /\ leaderboard_cache = <<>>
    /\ cache_seq = 0
    /\ ret = [op |-> "none"]
    /\ lastCompute = NULL
    /\ inflight = <<>>
    /\ weekly_quests = <<>>

\* quality classifications arriving for running sessions, the metrics of the
\* last day and of the default 7 days, and the scoring of quests over the
\* first day and over the whole calendar
MetricUpdates ==
    {[NoFields EXCEPT !.session_quality = Some("high")],
     [NoFields EXCEPT !.session_quality = Some("low")]}

MetricQuests == {q \in SampleQuests : q.requirements.active_minutes # 0
                                       /\ q.requirements.consistency_days # 0}

NextMetrics ==
    \/ \E u \in Users : CreateLearningSession(u)
    \/ \E i \in 1..MaxSessions, r \in MetricUpdates : UpdateLearningSession(i, r)
    \/ \E u \in Users, d \in {1, DefaultMetricDays} : GetUserSessionMetrics(u, d)
    \/ \E u \in Users, q \in MetricQuests : CalculateQuestProgress(u, q)
    \/ Tick

SpecMetrics == InitMetrics /\ [][NextMetrics]_vars

----------------------------------------------------------------------------
(* Session updates through the database function and through the route *)

\* get_learning_session: the stored row, None when no row has the id
GetLearningSession(t, session_id) ==
    IF session_id \in DOMAIN t THEN Some(t[session_id]) ELSE NULL

\* PUT /sessions/{session_id}.  Every exception raised in the handler, its own
\* HTTPException 404 included, is caught by "except Exception" and raised
\* again as HTTPException 400 with the text of the first as detail.
\* SessionResponse(session=None) fails validation: the field is a required
\* LearningSession.
UpdateSessionRoute(session_id, request) ==
    /\ LET success == SuppliedFields(request) # {}
           after == IF success
                    THEN [i \in DOMAIN learning_sessions |->
                             IF i = session_id
                             THEN UpdatedSession(learning_sessions[i], request)
                             ELSE learning_sessions[i]]
                    ELSE learning_sessions
           session == GetLearningSession(after, session_id)
           call == [op |-> "putSession", session_id |-> session_id,
                    request |-> request]
       IN  /\ learning_sessions' = after
           /\ lastCompute' = IF success THEN NULL ELSE lastCompute
           /\ ret' = IF ~success
                     THEN [call |-> call, op |-> "putSession", status |-> 400,
                           detail |-> "404: Session not found"]
                     ELSE IF IsNull(session)
                     THEN [call |-> call, op |-> "putSession", status |-> 400,
                           detail |-> "validation error for SessionResponse"]
                     ELSE [call |-> call, op |-> "putSession", status |-> 200,
                           session |-> Val(session)]
    /\ UNCHANGED <<weekly_quests, inflight, now, quest_completions, grace_tokens, leaderboard_cache, cache_seq>>

\* the bodies a client sends: nothing, one field, several fields
SparseUpdates ==
    {NoFields,
     [NoFields EXCEPT !.active_minutes = Some(3)],
     [NoFields EXCEPT !.session_end = Some(now), !.total_minutes = Some(4),
                      !.is_completed = Some(TRUE)],
     [NoFields EXCEPT !.interactions_count = Some(7), !.session_quality = Some("low")]}

NextSession ==
    \/ \E u \in Users : CreateLearningSession(u)
    \/ \E i \in 1..(MaxSessions + 1), r \in SparseUpdates : UpdateLearningSession(i, r)
    \/ \E i \in 1..(MaxSessions + 1), r \in SparseUpdates : UpdateSessionRoute(i, r)

SpecSession == Init /\ [][NextSession]_vars

----------------------------------------------------------------------------
(* Active sessions of a user *)

\* "WHERE user_id = ? AND is_completed = 0"
ActiveFilter_CompletedToo(row, user_id) == row.user_id = user_id

ActiveFilter(row, user_id) == row.user_id = user_id /\ ~row.is_completed

\* the rows get_user_active_sessions selects
ActiveRows(user_id) ==
    {i \in DOMAIN learning_sessions : ActiveFilter(learning_sessions[i], user_id)}

\* ORDER BY session_start DESC; rows started at the same instant come in any order
ActiveListings(user_id) ==
    {f \in Orderings(ActiveRows(user_id)) :
        \A i, j \in DOMAIN f :
            i < j => learning_sessions[f[i]].session_start
                        >= learning_sessions[f[j]].session_start}

\* get_user_active_sessions: the ids of the LearningSession objects returned,
\* in order
GetUserActiveSessions(user_id) ==
    /\ \E listing \in ActiveListings(user_id) :
          ret' = [op |-> "listActive", user_id |-> user_id, ids |-> listing]
    /\ UNCHANGED <<inflight, now, stores, lastCompute>>

\* sessions that are completed, reopened, and pinged
ActiveUpdates ==
    {[NoFields EXCEPT !.is_completed = Some(TRUE)],
     [NoFields EXCEPT !.is_completed = Some(FALSE)],
     [NoFields EXCEPT !.active_minutes = Some(3)]}

NextActive ==
    \/ \E u \in Users : CreateLearningSession(u)
    \/ \E i \in 1..MaxSessions, r \in ActiveUpdates : UpdateLearningSession(i, r)
    \/ \E u \in Users : GetUserActiveSessions(u)
    \/ Tick

SpecActive == Init /\ [][NextActive]_vars

----------------------------------------------------------------------------
(* Quest completion records *)

\* the columns of quest_completions as the setup scripts create the table
QuestCompletionColumns ==
    {"id", "user_id", "quest_id", "progress", "is_completed", "completed_at",
     "points_earned", "badges_earned", "proof_data", "created_at"}

\* the columns assigned by "UPDATE quest_completions SET progress = ?,
\* completion_percentage = ?"
ProgressUpdateColumns == {"progress", "completion_percentage"}

\* sqlite3.OperationalError "no such column": SQLite rejects the statement when
\* it prepares it, before any row is touched
NoSuchColumn(columns) == columns \ QuestCompletionColumns # {}

\* the rows "WHERE user_id = ? AND quest_id = ?"
CompletionRows(user_id, quest_id) ==
    {i \in DOMAIN quest_completions :
        /\ quest_completions[i].user_id = user_id
        /\ quest_completions[i].quest_id = quest_id}

\* an INSERT that marks the row completed when the progress is full
NewCompletion_AutoComplete(user_id, quest_id, progress) ==
    [user_id |-> user_id, quest_id |-> quest_id, progress |-> JsonDumps(progress),
     is_completed |-> (progress.completion_percentage = <<1, 1>>),
     completed_at |-> NULL, points_earned |-> 0,
     badges_earned |-> NULL, proof_data |-> NULL]

\* an INSERT that stamps the row with the instant of the write
NewCompletion_Stamped(user_id, quest_id, progress) ==
    [user_id |-> user_id, quest_id |-> quest_id, progress |-> JsonDumps(progress),
     is_completed |-> FALSE, completed_at |-> Some(now), points_earned |-> 0,
     badges_earned |-> NULL, proof_data |-> NULL]

\* INSERT INTO quest_completions (user_id, quest_id, progress): the other
\* columns take the defaults of the table (created_at is read by no computation
\* and is left out)
NewCompletion(user_id, quest_id, progress) ==
    [user_id |-> user_id, quest_id |-> quest_id, progress |-> JsonDumps(progress),
     is_completed |-> FALSE, completed_at |-> NULL, points_earned |-> 0,
     badges_earned |-> NULL, proof_data |-> NULL]

\* the QuestCompletion built from a stored row by get_user_quest_progress
CompletionOf(i) ==
    LET row == quest_completions[i]
    IN  [id |-> i, user_id |-> row.user_id, quest_id |-> row.quest_id,
         progress |-> JsonLoads(row.progress), is_completed |-> row.is_completed,
         completed_at |-> row.completed_at, points_earned |-> row.points_earned,
         badges_earned |-> IF IsNull(row.badges_earned) THEN <<>>
                           ELSE JsonLoads(Val(row.badges_earned))]

\* get_user_quest_progress
GetUserQuestProgress(user_id, quest_id) ==
    /\ LET found == CompletionRows(user_id, quest_id)
       IN  ret' = [op |-> "getProgress", user_id |-> user_id, quest_id |-> quest_id,
                   completion |-> IF found = {} THEN NULL
                                  ELSE Some(CompletionOf(CHOOSE i \in found : TRUE))]
    /\ UNCHANGED <<inflight, now, stores, lastCompute>>

\* update_quest_progress: raised is TRUE when the database operation raises and
\* the function does not reach "return True"
UpdateQuestProgress(user_id, quest_id, progress) ==
    /\ LET existing == CompletionRows(user_id, quest_id)
           result(raised) ==
               [op |-> "recordProgress", user_id |-> user_id, quest_id |-> quest_id,
                progress |-> progress, raised |-> raised]
       IN  IF existing # {}
           THEN IF NoSuchColumn(ProgressUpdateColumns)
                THEN /\ ret' = result(TRUE)
                     /\ UNCHANGED quest_completions
                ELSE /\ quest_completions' =
                           [i \in DOMAIN quest_completions |->
                               IF i \in existing
                               THEN [quest_completions[i] EXCEPT
                                        !.progress = JsonDumps(progress)]
                               ELSE quest_completions[i]]
                     /\ ret' = result(FALSE)
           ELSE /\ quest_completions' =
                      Append(quest_completions,
                             NewCompletion(user_id, quest_id, progress))
                /\ ret' = result(FALSE)
    /\ UNCHANGED <<weekly_quests, inflight, now, learning_sessions, grace_tokens, leaderboard_cache,
                   cache_seq, lastCompute>>

\* the quests progress is recorded against
QuestIds == 1..NumQuests

\* QuestProgress values as calculate_quest_progress returns them: nothing done
\* yet, and every requirement met
SampleProgress ==
    {[active_minutes |-> 0, dp_passes |-> 0, peer_reviews |-> 0,
      avg_session_quality |-> Zero, consistency_days |-> 0,
      completion_percentage |-> Zero],
     [active_minutes |-> 3, dp_passes |-> 0, peer_reviews |-> 0,
      avg_session_quality |-> One, consistency_days |-> 1,
      completion_percentage |-> One]}

NextRecord ==
    \/ \E u \in Users, q \in QuestIds, p \in SampleProgress :
          UpdateQuestProgress(u, q, p)
    \/ \E u \in Users, q \in QuestIds : GetUserQuestProgress(u, q)

SpecRecord == Init /\ [][NextRecord]_vars

----------------------------------------------------------------------------
(* Leaderboard engine *)

\* the users table, owned by the account management of the platform: the first
\* user has a first and a last name, the others only an email.  Text is a
\* sequence of pieces.
Mailboxes == <<"ada", "grace", "edsger", "barbara">>

UserRow(u) ==
    [id |-> u,
     first_name |-> IF u = 1 THEN Some("Ada") ELSE NULL,
     last_name |-> IF u = 1 THEN Some("Lovelace") ELSE NULL,
     email |-> <<Mailboxes[u], "@", "example.org">>]

\* the user_cohorts table, owned by the cohort management of the platform
UserCohorts ==
    {[user_id |-> 1, cohort_id |-> 1, role |-> "learner"],
     [user_id |-> 2, cohort_id |-> 1, role |-> "mentor"]}

\* the values bound to the "?" placeholders, with their SQLite storage class: a
\* datetime is adapted to ISO text, an int stays an integer
SqlText(t) == [class |-> "text", v |-> t]

SqlInteger(n) == [class |-> "integer", v |-> n]

\* "column >= ?" for a DATETIME column that holds ISO text or NULL.  NULL
\* compares to nothing; SQLite orders every INTEGER before every TEXT, so the
\* text is greater than an integer parameter; two texts compare as instants.
SqlDatetimeGe(column, param) ==
    /\ ~IsNull(column)
    /\ IF param.class = "integer" THEN TRUE ELSE Val(column) >= param.v

\* "column = ?" for an INTEGER column: a text parameter that is no number
\* equals no integer
SqlIntegerEq(column, param) ==
    IF param.class = "integer" THEN column = param.v ELSE FALSE

\* datetime.min, before every timestamp of the tables
DatetimeMin == 0

\* start_date
StartDate(time_period) ==
    IF time_period = "weekly" THEN now - Days(WeeklyDays)
    ELSE IF time_period = "monthly" THEN now - Days(MonthlyDays)
    ELSE DatetimeMin

\* "if scope_id" of an Optional[int]
Truthy(scope_id) == ~IsNull(scope_id) /\ Val(scope_id) # 0

\* params + [start_date, limit]
QueryParams(leaderboard_type, time_period, scope_id, limit) ==
    LET start_date == SqlText(StartDate(time_period))
        params == IF leaderboard_type = "cohort" /\ Truthy(scope_id)
                  THEN <<start_date, SqlInteger(Val(scope_id))>>
                  ELSE <<start_date>>
    IN  params \o <<start_date, SqlInteger(limit)>>

\* the "?" of the statement, in the order of its text: ls.session_start >= ?,
\* qc.completed_at >= ?, cohort_id = ? when user_filter is there, LIMIT ?
Placeholders(leaderboard_type) ==
    IF leaderboard_type = "cohort"
    THEN <<"session_start", "completed_at", "cohort_id", "limit">>
    ELSE <<"session_start", "completed_at", "limit">>

\* the parameter sqlite3 binds to the placeholder: the one at its position
Bound(name, leaderboard_type, bindings) ==
    LET ph == Placeholders(leaderboard_type)
    IN  bindings[CHOOSE k \in DOMAIN ph : ph[k] = name]

\* sqlite3.ProgrammingError "Incorrect number of bindings supplied"
BindingMismatch(leaderboard_type, bindings) ==
    Len(bindings) # Len(Placeholders(leaderboard_type))

\* "WHERE 1=1 {user_filter}"
UserFilter(u, leaderboard_type, bindings) ==
    leaderboard_type = "cohort" =>
        \E m \in UserCohorts :
            /\ m.user_id = u
            /\ SqlIntegerEq(m.cohort_id, Bound("cohort_id", leaderboard_type, bindings))
            /\ m.role = "learner"

\* LEFT JOIN learning_sessions ls ON u.id = ls.user_id AND ls.session_start >= ?
JoinedSessions(u, leaderboard_type, bindings) ==
    {i \in DOMAIN learning_sessions :
        /\ learning_sessions[i].user_id = u
        /\ SqlDatetimeGe(Some(learning_sessions[i].session_start),
                         Bound("session_start", leaderboard_type, bindings))}

\* LEFT JOIN quest_completions qc ON u.id = qc.user_id AND qc.is_completed = 1
\* AND qc.completed_at >= ?
JoinedCompletions(u, leaderboard_type, bindings) ==
    {j \in DOMAIN quest_completions :
        /\ quest_completions[j].user_id = u
        /\ quest_completions[j].is_completed
        /\ SqlDatetimeGe(quest_completions[j].completed_at,
                         Bound("completed_at", leaderboard_type, bindings))}

\* the CASE of avg_quality_score, with its ELSE 2.0
LeaderboardQualityWeight(q) == IF q \in SessionQualities THEN QualityWeight(q) ELSE 2

\* One row of the GROUP BY.  The two LEFT JOINs pair every joined session with
\* every joined completion, so SUM(ls.active_minutes) counts each session once
\* per joined completion; a user without joined sessions has ls.* NULL.
LeaderboardRow(u, leaderboard_type, bindings) ==
    LET S == JoinedSessions(u, leaderboard_type, bindings)
        Q == JoinedCompletions(u, leaderboard_type, bindings)
        minutes == [i \in S |-> learning_sessions[i].active_minutes]
        weight == [i \in S |->
                      LeaderboardQualityWeight(learning_sessions[i].session_quality)]
        copies == IF Q = {} THEN 1 ELSE Cardinality(Q)
        row == UserRow(u)
    IN  [id |-> u,
         user_name |-> IF IsNull(row.first_name) \/ IsNull(row.last_name)
                       THEN row.email
                       ELSE <<Val(row.first_name), " ", Val(row.last_name)>>,
         email |-> row.email,
         total_active_minutes |-> SumOver(S, minutes) * copies,
         total_sessions |-> Cardinality(S),
         avg_quality_score |-> IF S = {} THEN <<2, 1>>
                                ELSE Frac(SumOver(S, weight), Cardinality(S)),
         quests_completed |-> Cardinality(Q)]

\* HAVING total_active_minutes > 0
Having_NonNegative(row) == row.total_active_minutes >= 0
Having(row) == row.total_active_minutes > 0

\* ORDER BY total_active_minutes DESC alone
SortsBefore_MinutesOnly(a, b) == a.total_active_minutes > b.total_active_minutes

\* ORDER BY total_active_minutes DESC, avg_quality_score DESC: a sorts before b
SortsBefore(a, b) ==
    \/ a.total_active_minutes > b.total_active_minutes
    \/ /\ a.total_active_minutes = b.total_active_minutes
       /\ FracLess(b.avg_quality_score, a.avg_quality_score)

\* The result sets the statement can return before LIMIT: the grouped rows that
\* pass HAVING, in an order that agrees with ORDER BY.  Rows equal in both sort
\* keys come in an order SQL leaves open.
ResultSets(leaderboard_type, bindings) ==
    LET row(u) == LeaderboardRow(u, leaderboard_type, bindings)
        kept == {u \in Users : UserFilter(u, leaderboard_type, bindings)
                                 /\ Having(row(u))}
    IN  {[k \in DOMAIN f |-> row(f[k])] :
            f \in {g \in Orderings(kept) :
                      \A i, j \in DOMAIN g :
                          i < j => ~SortsBefore(row(g[j]), row(g[i]))}}

\* LIMIT ?: a negative limit is no limit
Limited(results, limit) ==
    IF limit < 0 \/ limit >= Len(results) THEN results ELSE SubSeq(results, 1, limit)

\* entries ranked as a SQL window rank would: rows equal in both sort keys
\* share a rank
Entries_WindowRank(results) ==
    [k \in DOMAIN results |->
        [user_id |-> results[k].id,
         rank |-> 1 + Cardinality({i \in DOMAIN results :
                                      SortsBefore(results[i], results[k])})]]

\* the entries built by "for rank, row in enumerate(results, 1)"
Entries(results) ==
    [rank \in DOMAIN results |->
        LET row == results[rank]
        IN  [user_id |-> row.id, user_name |-> row.user_name,
             user_email |-> row.email, score |-> row.total_active_minutes,
             rank |-> rank, active_minutes |-> row.total_active_minutes,
             quests_completed |-> row.quests_completed, streak_count |-> 0,
             session_quality_avg |->
                 IF row.avg_quality_score # Zero
                 THEN FracDiv(row.avg_quality_score, <<3, 1>>) ELSE Zero,
             badges |-> <<>>]]

\* calculate_leaderboard: the LeaderboardData dict, or raised when sqlite3
\* rejects the bindings
CalculateLeaderboard(leaderboard_type, time_period, scope_id, limit) ==
    /\ LET bindings == QueryParams(leaderboard_type, time_period, scope_id, limit)
           call == [op |-> "compute", leaderboard_type |-> leaderboard_type,
                    time_period |-> time_period, scope_id |-> scope_id,
                    limit |-> limit]
       IN  IF BindingMismatch(leaderboard_type, bindings)
           THEN ret' = [call |-> call, op |-> "compute", raised |-> TRUE]
           ELSE \E results \in ResultSets(leaderboard_type, bindings) :
                   ret' = [call |-> call, op |-> "compute", raised |-> FALSE,
                           data |-> LeaderboardDict(
                                       leaderboard_type, scope_id, time_period,
                                       Entries(Limited(results,
                                           Bound("limit", leaderboard_type,
                                                 bindings).v)),
                                       [datetime |-> now])]
    /\ UNCHANGED <<inflight, now, stores, lastCompute>>

\* days pass without a request
Elapse(days) ==
    /\ now + Days(days) <= Days(MaxDays)
    /\ now' = now + Days(days)
    /\ ret' = [op |-> "elapse"]
    /\ UNCHANGED <<inflight, stores, lastCompute>>

\* A quest completion row marked completed.  No function of the gamification
\* module sets is_completed or completed_at; such rows are written by the
\* reward step outside it, and calculate_leaderboard reads them.
CompletedRow(user_id, quest_id, completed_at) ==
    [NewCompletion(user_id, quest_id, CHOOSE p \in SampleProgress :
                                          p.completion_percentage = One)
        EXCEPT !.is_completed = TRUE, !.completed_at = Some(completed_at)]

\* the quest completions the leaderboard is computed over: none, or completed
\* quests of both users
CompletionSeeds ==
    {<<>>,
     <<CompletedRow(1, 1, 0), CompletedRow(2, 1, 0), CompletedRow(2, 2, 0)>>}

InitLeaderboard ==
    /\ now = 0
    /\ learning_sessions = <<>>
    /\ quest_completions \in CompletionSeeds
    /\ grace_tokens = <<>>
    /\ leaderboard_cache = <<>>
    /\ cache_seq = 0
    /\ ret = [op |-> "none"]
    /\ lastCompute = NULL
    /\ inflight = <<>>
    /\ weekly_quests = <<>>

\* the requests the leaderboard is asked with
LeaderboardRequests ==
    {[leaderboard_type |-> t, time_period |-> p, scope_id |-> s, limit |-> l] :
        t \in {"global", "cohort"}, p \in TimePeriods, s \in {NULL, Some(1)},
        l \in {1, 100}}

NextLeaderboard ==
    \/ \E u \in Users : CreateLearningSession(u)
    \/ \E i \in 1..MaxSessions :
          UpdateLearningSession(i, [NoFields EXCEPT !.active_minutes = Some(3)])
    \/ \E r \in LeaderboardRequests :
          CalculateLeaderboard(r.leaderboard_type, r.time_period, r.scope_id, r.limit)
    \/ \E d \in {WeeklyDays, MonthlyDays} : Elapse(d)

SpecLeaderboard == InitLeaderboard /\ [][NextLeaderboard]_vars

\* progress recorded into a table that already holds completed quests
SpecFrame == InitLeaderboard /\ [][NextRecord]_vars

\* The ranking of one instant: sessions that differ in minutes and in quality,
\* and boards asked with a negative, a small and the default limit.
RankingUpdates ==
    {[NoFields EXCEPT !.active_minutes = Some(3)],
     [NoFields EXCEPT !.active_minutes = Some(5)],
     [NoFields EXCEPT !.session_quality = Some("high")]}

RankingRequests ==
    {[leaderboard_type |-> t, time_period |-> p, scope_id |-> s, limit |-> l] :
        t \in {"global", "cohort"}, p \in {"weekly", "all_time"},
        s \in {NULL, Some(1)}, l \in {-1, 1, 100}}

NextRanking ==
    \/ \E u \in Users : CreateLearningSession(u)
    \/ \E i \in 1..MaxSessions, r \in RankingUpdates : UpdateLearningSession(i, r)
    \/ \E r \in RankingRequests :
          CalculateLeaderboard(r.leaderboard_type, r.time_period, r.scope_id, r.limit)

SpecRanking == InitLeaderboard /\ [][NextRanking]_vars

----------------------------------------------------------------------------
(* Admin refresh of every leaderboard *)

\* the members of LeaderboardType and TimePeriod in definition order, the order
\* "for ... in LeaderboardType" and "for ... in TimePeriod" iterate in
LeaderboardTypeOrder == <<"course", "cohort", "topic", "campus", "global">>

TimePeriodOrder == <<"weekly", "monthly", "all_time">>

\* the (leaderboard_type, time_period) pairs in the order of the nested loops
RefreshKeys ==
    [k \in 1..(Len(LeaderboardTypeOrder) * Len(TimePeriodOrder)) |->
        [leaderboard_type |->
            LeaderboardTypeOrder[((k - 1) \div Len(TimePeriodOrder)) + 1],
         time_period |-> TimePeriodOrder[((k - 1) % Len(TimePeriodOrder)) + 1]]]

\* the table cache_leaderboard leaves when it runs on table cache with seq ids
\* handed out so far: INSERT OR REPLACE of the row of data
CacheAfterStore(cache, seq, data, expires_hours) ==
    LET conflicts == {i \in DOMAIN cache :
                         /\ cache[i].leaderboard_type = data.leaderboard_type
                         /\ SqlEq(cache[i].scope_id, data.scope_id)
                         /\ cache[i].time_period = data.time_period}
    IN  Append(Without(cache, conflicts, 1),
               [id |-> seq + 1,
                leaderboard_type |-> data.leaderboard_type,
                scope_id |-> data.scope_id,
                time_period |-> data.time_period,
                leaderboard_data |-> JsonDumps(data),
                expires_at |-> now + Hours(expires_hours)])

\* the result set of the statement when rows equal in both sort keys come in
\* the order tie of the users (one query plan serves every iteration)
TiedResults(leaderboard_type, bindings, tie) ==
    CHOOSE r \in ResultSets(leaderboard_type, bindings) :
        \A i, j \in DOMAIN r :
            (i < j /\ ~SortsBefore(r[i], r[j])) =>
                \E a, b \in DOMAIN tie : a < b /\ tie[a] = r[i].id /\ tie[b] = r[j].id

\* One pass of the loop body on run = [cache, seq, count, raised]:
\* calculate_leaderboard(leaderboard_type, time_period) with scope_id and limit
\* at their defaults, cache_leaderboard(..., expires_hours=2), refresh_count += 1.
\* An exception of either call leaves the loop.
RefreshIteration(run, key, tie) ==
    LET bindings == QueryParams(key.leaderboard_type, key.time_period, NULL,
                                DefaultLimit)
    IN  IF BindingMismatch(key.leaderboard_type, bindings)
        THEN [run EXCEPT !.raised = TRUE]
        ELSE LET data == LeaderboardDict(
                             key.leaderboard_type, NULL, key.time_period,
                             Entries(Limited(
                                 TiedResults(key.leaderboard_type, bindings, tie),
                                 DefaultLimit)),
                             [datetime |-> now])
             IN  IF ~JsonSerializable(data)
                 THEN [run EXCEPT !.raised = TRUE]
                 ELSE [cache |-> CacheAfterStore(run.cache, run.seq, data,
                                                 RefreshTtlHours),
                       seq |-> run.seq + 1,
                       count |-> run.count + 1,
                       raised |-> FALSE]

\* the loops from pair k on
RECURSIVE RefreshFrom(_, _, _)
RefreshFrom(run, k, tie) ==
    IF k > Len(RefreshKeys) \/ run.raised THEN run
    ELSE RefreshFrom(RefreshIteration(run, RefreshKeys[k], tie), k + 1, tie)

\* refresh_all_leaderboards: the dict it returns, or the HTTPException 400 its
\* "except Exception" turns any exception into.  Rows stored before an
\* exception stay stored: every database operation commits on its own.
RefreshAllLeaderboards ==
    /\ \E tie \in Orderings(Users) :
          LET run == RefreshFrom([cache |-> leaderboard_cache, seq |-> cache_seq,
                                  count |-> 0, raised |-> FALSE], 1, tie)
          IN  /\ leaderboard_cache' = run.cache
              /\ cache_seq' = run.seq
              /\ ret' = IF run.raised
                        THEN [op |-> "refreshAll", raised |-> TRUE, status |-> 400]
                        ELSE [op |-> "refreshAll", raised |-> FALSE,
                              refreshed_count |-> run.count, refreshed_at |-> now]
    /\ UNCHANGED <<weekly_quests, inflight, now, learning_sessions, quest_completions, grace_tokens,
                   lastCompute>>

\* the refresh run at one instant against stores that hold sessions and
\* cached boards, with and without scope
RefreshCacheInputs ==
    {d \in CacheInputs : d.time_period = "weekly" /\ JsonSerializable(d)}

NextRefresh ==
    \/ \E u \in Users : CreateLearningSession(u)
    \/ \E i \in 1..MaxSessions :
          UpdateLearningSession(i, [NoFields EXCEPT !.active_minutes = Some(3)])
    \/ \E d \in RefreshCacheInputs : CacheLeaderboard(d, ReadTtlHours)
    \/ RefreshAllLeaderboards

SpecRefresh == Init /\ [][NextRefresh]_vars

----------------------------------------------------------------------------
(* Calls that interleave.  A handler is a coroutine: between two awaited
   database operations other requests run.  inflight[c] holds what call c
   keeps in its local variables across the await, and its outcome once it
   returned. *)

Callers == 1..NumCallers

InitCallers ==
    /\ now = 0
    /\ learning_sessions = <<>>
    /\ quest_completions = <<>>
    /\ grace_tokens \in TokenSeeds
    /\ leaderboard_cache = <<>>
    /\ cache_seq = 0
    /\ ret = [op |-> "none"]
    /\ lastCompute = NULL
    /\ inflight = [c \in Callers |-> [pc |-> "idle"]]
    /\ weekly_quests = <<>>

\* update_quest_progress up to its second await: get_user_quest_progress has
\* returned and "existing" is bound
BeginUpdateQuestProgress(c, user_id, quest_id, progress) ==
    /\ inflight[c].pc = "idle"
    /\ inflight' = [inflight EXCEPT ![c] =
                       [pc |-> "write", op |-> "recordProgress",
                        user_id |-> user_id, quest_id |-> quest_id,
                        progress |-> progress,
                        existing |-> CompletionRows(user_id, quest_id) # {}]]
    /\ ret' = [op |-> "suspended", caller |-> c]
    /\ UNCHANGED <<now, stores, lastCompute>>

\* sqlite3.IntegrityError of the INSERT: UNIQUE(user_id, quest_id) of the table
UniqueViolation_NoConstraint(user_id, quest_id) == FALSE

UniqueViolation(user_id, quest_id) == CompletionRows(user_id, quest_id) # {}

\* update_quest_progress from its second await on: the UPDATE or the INSERT
\* chosen by what the call read before, run on the table as it is now
FinishUpdateQuestProgress(c) ==
    /\ inflight[c].pc = "write"
    /\ inflight[c].op = "recordProgress"
    /\ LET call == inflight[c]
           rows == CompletionRows(call.user_id, call.quest_id)
           error == IF call.existing
                    THEN IF NoSuchColumn(ProgressUpdateColumns)
                         THEN "OperationalError" ELSE "none"
                    ELSE IF UniqueViolation(call.user_id, call.quest_id)
                         THEN "IntegrityError" ELSE "none"
       IN  /\ quest_completions' =
                 IF error # "none" THEN quest_completions
                 ELSE IF call.existing
                 THEN [i \in DOMAIN quest_completions |->
                          IF i \in rows
                          THEN [quest_completions[i] EXCEPT
                                   !.progress = JsonDumps(call.progress)]
                          ELSE quest_completions[i]]
                 ELSE Append(quest_completions,
                             NewCompletion(call.user_id, call.quest_id, call.progress))
           /\ inflight' = [inflight EXCEPT ![c] =
                              [pc |-> "done", op |-> "recordProgress",
                               user_id |-> call.user_id, quest_id |-> call.quest_id,
                               progress |-> call.progress, existing |-> call.existing,
                               raised |-> error # "none", error |-> error]]
           /\ ret' = [op |-> "recordProgress", user_id |-> call.user_id,
                      quest_id |-> call.quest_id, progress |-> call.progress,
                      raised |-> error # "none"]
    /\ UNCHANGED <<weekly_quests, now, learning_sessions, grace_tokens, leaderboard_cache,
                   cache_seq, lastCompute>>

NextRace ==
    \/ \E c \in Callers, u \in Users, q \in QuestIds, p \in SampleProgress :
          BeginUpdateQuestProgress(c, u, q, p)
    \/ \E c \in Callers : FinishUpdateQuestProgress(c)

SpecRace == InitCallers /\ [][NextRace]_vars

\* use_grace_token up to its second await: the SELECT has returned and the two
\* checks are made; a call that passes them has built the parameters of the
\* UPDATE, datetime.now() among them
BeginUseToken(c, token_id) ==
    /\ inflight[c].pc = "idle"
    /\ inflight' = [inflight EXCEPT ![c] =
                       IF TokenUnusable(token_id)
                          \/ TokenExpired(grace_tokens[token_id].expires_at, now)
                       THEN [pc |-> "done", op |-> "redeem", token_id |-> token_id,
                             ok |-> FALSE]
                       ELSE [pc |-> "update", op |-> "redeem", token_id |-> token_id,
                             used_date |-> now]]
    /\ ret' = IF inflight'[c].pc = "done"
              THEN [op |-> "redeem", token_id |-> token_id, ok |-> FALSE]
              ELSE [op |-> "suspended", caller |-> c]
    /\ UNCHANGED <<now, stores, lastCompute>>

\* use_grace_token from its second await on: "UPDATE ... SET is_used = 1,
\* used_date = ? WHERE id = ?", then return True
FinishUseToken(c) ==
    /\ inflight[c].pc = "update"
    /\ inflight[c].op = "redeem"
    /\ LET call == inflight[c]
       IN  /\ grace_tokens' =
                 [i \in DOMAIN grace_tokens |->
                     IF i = call.token_id
                     THEN [grace_tokens[i] EXCEPT !.is_used = TRUE,
                                                  !.used_date = Some(call.used_date)]
                     ELSE grace_tokens[i]]
           /\ inflight' = [inflight EXCEPT ![c] =
                              [pc |-> "done", op |-> "redeem",
                               token_id |-> call.token_id, ok |-> TRUE]]
           /\ ret' = [op |-> "redeem", token_id |-> call.token_id, ok |-> TRUE]
    /\ UNCHANGED <<weekly_quests, now, learning_sessions, quest_completions, leaderboard_cache,
                   cache_seq, lastCompute>>

NextRedeem ==
    \/ \E u \in Users, d \in 1..MaxExpiresDays : GrantToken(u, d)
    \/ \E c \in Callers, t \in 1..(MaxTokens + 1) : BeginUseToken(c, t)
    \/ \E c \in Callers : FinishUseToken(c)
    \/ Tick

SpecRedeem == InitCallers /\ [][NextRedeem]_vars

----------------------------------------------------------------------------
(* Scoring over the minutes a client may report *)

\* UpdateSessionRequest declares active_minutes as Optional[int] without a
\* validator, and update_learning_session stores what it is given
ReportedMinutes == {-3, 3, 7}

RangeUpdates == {[NoFields EXCEPT !.active_minutes = Some(m)] : m \in ReportedMinutes}

\* the quests whose computation returns
RangeQuests == {q \in SampleQuests : ~DivisionByZero(q)}

NextRange ==
    \/ \E u \in Users : CreateLearningSession(u)
    \/ \E i \in 1..MaxSessions, r \in RangeUpdates : UpdateLearningSession(i, r)
    \/ \E u \in Users, q \in RangeQuests : CalculateQuestProgress(u, q)

SpecRange == Init /\ [][NextRange]_vars

----------------------------------------------------------------------------
(* GET /leaderboards/{leaderboard_type}: cache or compute *)

\* "for entry in leaderboard_data['entries']: if entry['user_id'] == user_id":
\* the first entry of the user, None when user_id is falsy or has no entry
UserEntry(data, user_id) ==
    LET own == {k \in DOMAIN data.entries :
                   Truthy(user_id) /\ data.entries[k].user_id = Val(user_id)}
    IN  IF own = {} THEN NULL
        ELSE Some(data.entries[CHOOSE k \in own : \A j \in own : k <= j])

\* get_leaderboard.  failed names the call whose exception "except Exception"
\* turned into HTTPException 400.
GetLeaderboard(leaderboard_type, time_period, scope_id, user_id, limit) ==
    LET call == [leaderboard_type |-> leaderboard_type, time_period |-> time_period,
                 scope_id |-> scope_id, user_id |-> user_id, limit |-> limit]
        rows == CachedRows(leaderboard_type, time_period, scope_id)
        bindings == QueryParams(leaderboard_type, time_period, scope_id, limit)
        answer(data, hit) ==
            [op |-> "getLeaderboard", call |-> call, hit |-> hit, status |-> 200,
             failed |-> "none", leaderboard |-> Some(data),
             user_entry |-> UserEntry(data, user_id)]
        error(failed, data) ==
            [op |-> "getLeaderboard", call |-> call, hit |-> FALSE, status |-> 400,
             failed |-> failed, leaderboard |-> data, user_entry |-> NULL]
    IN  /\ IF rows # {}
           THEN /\ \E i \in rows :
                      ret' = answer(JsonLoads(leaderboard_cache[i].leaderboard_data), TRUE)
                /\ UNCHANGED <<leaderboard_cache, cache_seq>>
           ELSE IF BindingMismatch(leaderboard_type, bindings)
           THEN /\ ret' = error("compute", NULL)
                /\ UNCHANGED <<leaderboard_cache, cache_seq>>
           ELSE \E results \in ResultSets(leaderboard_type, bindings) :
                   LET data == LeaderboardDict(
                                   leaderboard_type, scope_id, time_period,
                                   Entries(Limited(results,
                                       Bound("limit", leaderboard_type, bindings).v)),
                                   [datetime |-> now])
                   IN  IF ~JsonSerializable(data)
                       THEN /\ ret' = error("store", Some(data))
                            /\ UNCHANGED <<leaderboard_cache, cache_seq>>
                       ELSE /\ cache_seq < MaxStores
                            /\ leaderboard_cache' =
                                  CacheAfterStore(leaderboard_cache, cache_seq, data,
                                                  ReadTtlHours)
                            /\ cache_seq' = cache_seq + 1
                            /\ ret' = answer(data, FALSE)
        /\ UNCHANGED <<weekly_quests, inflight, now, learning_sessions, quest_completions,
                       grace_tokens, lastCompute>>

\* the requests the route is asked with
BoardRequests ==
    {[leaderboard_type |-> t, time_period |-> "weekly", scope_id |-> s,
      user_id |-> u, limit |-> l] :
        t \in {"global", "cohort"}, s \in {NULL, Some(1)}, u \in {NULL, Some(1)},
        l \in {1, DefaultLimit}}

\* a ledger that holds nothing, or one session of three active minutes
BoardSessions ==
    {<<>>, <<[NewSession(1, 0) EXCEPT !.active_minutes = 3]>>}

InitBoard ==
    /\ now = 0
    /\ learning_sessions \in BoardSessions
    /\ quest_completions = <<>>
    /\ grace_tokens = <<>>
    /\ leaderboard_cache = <<>>
    /\ cache_seq = 0
    /\ ret = [op |-> "none"]
    /\ lastCompute = NULL
    /\ inflight = <<>>
    /\ weekly_quests = <<>>

\* boards of a scoped key, stored with last_updated rendered as text: the
\* sample boards, and a board of two entries
BoardCacheInputs ==
    {d \in RefreshCacheInputs : ~IsNull(d.scope_id)}
    \cup
    {LeaderboardDict("cohort", Some(1), "weekly",
                     <<[user_id |-> 1, rank |-> 1, score |-> 5, active_minutes |-> 5,
                        quests_completed |-> 0],
                       [user_id |-> 2, rank |-> 2, score |-> 3, active_minutes |-> 3,
                        quests_completed |-> 0]>>,
                     [isoformat |-> 0])}

NextBoard ==
    \/ \E i \in 1..MaxSessions :
          UpdateLearningSession(i, [NoFields EXCEPT !.active_minutes = Some(5)])
    \/ \E d \in BoardCacheInputs, h \in CacheTtlHours : CacheLeaderboard(d, h)
    \/ \E r \in BoardRequests :
          GetLeaderboard(r.leaderboard_type, r.time_period, r.scope_id, r.user_id,
                         r.limit)
    \/ Tick

SpecBoard == InitBoard /\ [][NextBoard]_vars

----------------------------------------------------------------------------
(* Scoring of quests that ask for DP passes and peer reviews *)

\* quests that ask for neither, for one, for the other and for both (the last
\* with the defaults of QuestRequirements scaled to the modelled week)
PlaceholderQuests ==
    {[id |-> 1, week_start |-> 0, week_end |-> 0,
      requirements |-> Requirements(3, 0, 0, <<2, 3>>, 1)],
     [id |-> 2, week_start |-> 0, week_end |-> 0,
      requirements |-> Requirements(3, 3, 0, <<2, 3>>, 1)],
     [id |-> 3, week_start |-> 0, week_end |-> 0,
      requirements |-> Requirements(3, 0, 1, <<2, 3>>, 1)],
     [id |-> 4, week_start |-> 0, week_end |-> 0,
      requirements |-> Requirements(3, 3, 1, <<4, 5>>, 1)]}

NextPlaceholder ==
    \/ \E u \in Users : CreateLearningSession(u)
    \/ \E i \in 1..MaxSessions, r \in SessionUpdates : UpdateLearningSession(i, r)
    \/ \E u \in Users, q \in PlaceholderQuests : CalculateQuestProgress(u, q)

SpecPlaceholder == Init /\ [][NextPlaceholder]_vars

----------------------------------------------------------------------------
(* Scoring while sessions are written inside and outside the week of a quest *)

\* a quest of the first day and a quest over the whole modelled calendar
WindowQuests == {q \in SampleQuests : q.id \in {1, 4}}

NextWindow ==
    \/ \E u \in Users : CreateLearningSession(u)
    \/ \E i \in 1..MaxSessions :
          UpdateLearningSession(i, [NoFields EXCEPT !.active_minutes = Some(3)])
    \/ \E q \in WindowQuests : CalculateQuestProgress(1, q)
    \/ Tick

SpecWindow == Init /\ [][NextWindow]_vars

----------------------------------------------------------------------------
(* Weekly quests and POST /users/{user_id}/quests/{quest_id}/update-progress *)

\* INSERT INTO weekly_quests (quest_name, description, week_start, week_end,
\* org_id, cohort_id, requirements, rewards): is_active defaults to TRUE.  The
\* names, the scope ids, the rewards and created_at decide nothing in the
\* update-progress route and are left out of the row.
NewQuest(week_start, week_end, requirements) ==
    [week_start |-> week_start, week_end |-> week_end,
     requirements |-> JsonDumps(requirements), is_active |-> TRUE]

\* create_weekly_quest
CreateWeeklyQuest(week_start, week_end, requirements) ==
    /\ Len(weekly_quests) < NumQuests
    /\ weekly_quests' = Append(weekly_quests,
                               NewQuest(week_start, week_end, requirements))
    /\ ret' = [op |-> "createQuest", quest_id |-> Len(weekly_quests) + 1]
    /\ UNCHANGED <<inflight, now, learning_sessions, quest_completions, grace_tokens,
                   leaderboard_cache, cache_seq, lastCompute>>

\* "WHERE is_active = 1 AND ? BETWEEN week_start AND week_end" with date.today()
QuestIsActive_NoEnd(row, today) == row.is_active /\ row.week_start <= today

QuestIsActive(row, today) ==
    /\ row.is_active
    /\ row.week_start <= today
    /\ today <= row.week_end

\* get_active_quests() without org_id and cohort_id: the WeeklyQuest objects of
\* the selected rows (their order does not matter to a search by id)
GetActiveQuests ==
    {[id |-> i, week_start |-> weekly_quests[i].week_start,
      week_end |-> weekly_quests[i].week_end,
      requirements |-> JsonLoads(weekly_quests[i].requirements)] :
        i \in {j \in DOMAIN weekly_quests : QuestIsActive(weekly_quests[j], DateOf(now))}}

\* update_user_quest_progress.  failed names the step whose exception
\* "except Exception" turned into HTTPException 400: the handler's own 404,
\* calculate_quest_progress, or update_quest_progress.
UpdateUserQuestProgress(user_id, quest_id) ==
    LET found == {q \in GetActiveQuests : q.id = quest_id}
        error(failed) ==
            [op |-> "updateProgress", user_id |-> user_id, quest_id |-> quest_id,
             status |-> 400, failed |-> failed, is_completed |-> FALSE]
    IN  /\ IF found = {}
           THEN /\ ret' = error("quest not found")
                /\ UNCHANGED quest_completions
           ELSE LET quest == CHOOSE q \in found : TRUE
                    result == QuestProgressResult(user_id, quest)
                    existing == CompletionRows(user_id, quest_id)
                IN  IF result.raised
                    THEN /\ ret' = error("calculate")
                         /\ UNCHANGED quest_completions
                    ELSE IF existing # {} /\ NoSuchColumn(ProgressUpdateColumns)
                    THEN /\ ret' = error("record")
                         /\ UNCHANGED quest_completions
                    ELSE /\ quest_completions' =
                               IF existing # {}
                               THEN [i \in DOMAIN quest_completions |->
                                        IF i \in existing
                                        THEN [quest_completions[i] EXCEPT
                                                 !.progress = JsonDumps(result.progress)]
                                        ELSE quest_completions[i]]
                               ELSE Append(quest_completions,
                                           NewCompletion(user_id, quest_id,
                                                         result.progress))
                         /\ ret' = [op |-> "updateProgress", user_id |-> user_id,
                                    quest_id |-> quest_id, status |-> 200,
                                    failed |-> "none",
                                    is_completed |->
                                        ~FracLess(result.progress.completion_percentage,
                                                  One)]
        /\ UNCHANGED <<inflight, now, learning_sessions, weekly_quests, grace_tokens,
                       leaderboard_cache, cache_seq, lastCompute>>

\* the quests an administrator creates: one of the first day that a learner
\* can complete, and one of two days with the default kinds of requirement
QuestRequests ==
    {[week_start |-> 0, week_end |-> 0, requirements |-> Requirements(3, 0, 0, Zero, 1)],
     [week_start |-> 0, week_end |-> 1,
      requirements |-> Requirements(3, 3, 1, <<4, 5>>, 2)]}

\* The table as the setup script creates it, or holding a quest that was
\* switched off in the database: no operation of the engine writes is_active,
\* and get_active_quests filters on it.
QuestSeeds ==
    {<<>>,
     <<[NewQuest(0, 1, Requirements(3, 0, 0, Zero, 1)) EXCEPT !.is_active = FALSE]>>}

InitQuestRoute ==
    /\ now = 0
    /\ learning_sessions \in BoardSessions
    /\ quest_completions = <<>>
    /\ weekly_quests \in QuestSeeds
    /\ grace_tokens = <<>>
    /\ leaderboard_cache = <<>>
    /\ cache_seq = 0
    /\ ret = [op |-> "none"]
    /\ lastCompute = NULL
    /\ inflight = <<>>

\* the learner whose progress is recorded holds the sessions of the ledger
NextQuestRoute ==
    \/ \E r \in QuestRequests :
          CreateWeeklyQuest(r.week_start, r.week_end, r.requirements)
    \/ \E q \in 1..(NumQuests + 1) : UpdateUserQuestProgress(1, q)
    \/ \E q \in QuestIds : GetUserQuestProgress(1, q)
    \/ CalculateLeaderboard("global", "weekly", NULL, DefaultLimit)
    \/ Tick

SpecQuestRoute == InitQuestRoute /\ [][NextQuestRoute]_vars

----------------------------------------------------------------------------
(* Properties of the grace token ledger *)

\* C1 (single-use redemption): a redeem that returns true leaves the token
\* used with used_date = now; from then on every step keeps the token used and
\* its used_date as written, and every redeem of that token returns false.
C1_SingleUseRedemption ==
    [][ /\ (ret'.op = "redeem" /\ ret'.ok) =>
              /\ grace_tokens'[ret'.token_id].is_used
              /\ grace_tokens'[ret'.token_id].used_date = Some(now)
        /\ \A t \in DOMAIN grace_tokens :
              grace_tokens[t].is_used =>
                  /\ grace_tokens'[t].is_used
                  /\ grace_tokens'[t].used_date = grace_tokens[t].used_date
                  /\ (ret'.op = "redeem" /\ ret'.token_id = t) => ~ret'.ok
      ]_vars

\* C1 witness: a second redeem of a used token has just failed although the
\* token has not expired, at a later instant than the first redemption.
C1_Witness ==
    /\ ret.op = "redeem"
    /\ ~ret.ok
    /\ ret.token_id \in DOMAIN grace_tokens
    /\ grace_tokens[ret.token_id].is_used
    /\ ~TokenExpired(grace_tokens[ret.token_id].expires_at, now)
    /\ Val(grace_tokens[ret.token_id].used_date) < now

\* what the ledger contract calls a redeemable token at instant t
Redeemable(token_id, t) ==
    /\ token_id \in DOMAIN grace_tokens
    /\ ~grace_tokens[token_id].is_used
    /\ \/ IsNull(grace_tokens[token_id].expires_at)
       \/ Val(grace_tokens[token_id].expires_at) > t

\* C7 (redemption condition): redeem returns true if and only if the token
\* exists, is unused, and its expires_at is absent or strictly later than now.
C7_RedeemIffRedeemable ==
    [][ ret'.op = "redeem" => (ret'.ok <=> Redeemable(ret'.token_id, now)) ]_vars

\* C8 (token views): listTokens(u, unused_only = true) holds exactly u's tokens
\* that are unused and not expired (expires_at absent or > now), each once;
\* listTokens(u, unused_only = false) holds every token of u, each once.
C8_TokenViews ==
    ret.op = "listTokens" =>
        /\ {ret.ids[i] : i \in DOMAIN ret.ids} =
              {t \in DOMAIN grace_tokens :
                  /\ grace_tokens[t].user_id = ret.user_id
                  /\ ret.unused_only =>
                        /\ ~grace_tokens[t].is_used
                        /\ \/ IsNull(grace_tokens[t].expires_at)
                           \/ Val(grace_tokens[t].expires_at) > now}
        /\ \A i, j \in DOMAIN ret.ids : i # j => ret.ids[i] # ret.ids[j]

\* C8 witness: an unused-only listing was returned while the user holds a token
\* that expired without being used (left out) and another that is still valid
\* (listed).
C8_Witness ==
    /\ ret.op = "listTokens"
    /\ ret.unused_only
    /\ \E t \in DOMAIN grace_tokens :
          /\ grace_tokens[t].user_id = ret.user_id
          /\ ~grace_tokens[t].is_used
          /\ ~IsNull(grace_tokens[t].expires_at)
          /\ Val(grace_tokens[t].expires_at) <= now
          /\ \A i \in DOMAIN ret.ids : ret.ids[i] # t
    /\ Len(ret.ids) >= 1

----------------------------------------------------------------------------
(* Properties of the leaderboard cache *)

\* the key triple of a cache row, scope_id absent included
RowKey(row) ==
    [leaderboard_type |-> row.leaderboard_type, scope_id |-> row.scope_id,
     time_period |-> row.time_period]

\* row i is the row of the last store performed for its key triple
LastStored(i) ==
    \A j \in DOMAIN leaderboard_cache :
        RowKey(leaderboard_cache[j]) = RowKey(leaderboard_cache[i]) =>
            leaderboard_cache[j].id <= leaderboard_cache[i].id

\* C4 (cache hit within TTL): for every key triple, scope_id absent included,
\* a read strictly before the expires_at of the last store for that triple
\* returns the data of that store.
C4_CacheHitWithinTtl ==
    ret.op = "readCache" =>
        \A i \in DOMAIN leaderboard_cache :
            ( /\ RowKey(leaderboard_cache[i]) = ret.key
              /\ LastStored(i)
              /\ now < leaderboard_cache[i].expires_at )
            => /\ ret.hit
               /\ ret.data = JsonLoads(leaderboard_cache[i].leaderboard_data)

\* C5 (no expired reads): a read that returns data returns the data of a row
\* of its key whose expires_at is later than now; when every row of the key has
\* expires_at <= now the read is a miss.
C5_NoExpiredReads ==
    ret.op = "readCache" =>
        /\ ret.hit =>
              \E i \in DOMAIN leaderboard_cache :
                  /\ RowKey(leaderboard_cache[i]) = ret.key
                  /\ leaderboard_cache[i].expires_at > now
                  /\ ret.data = JsonLoads(leaderboard_cache[i].leaderboard_data)
        /\ (\A i \in DOMAIN leaderboard_cache :
               RowKey(leaderboard_cache[i]) = ret.key =>
                   leaderboard_cache[i].expires_at <= now)
           => ~ret.hit

\* C5 witness: a read missed although the cache holds a row of its key, because
\* the clock has just reached the row's expires_at.
C5_Witness ==
    /\ ret.op = "readCache"
    /\ ~ret.hit
    /\ \E i \in DOMAIN leaderboard_cache :
          /\ RowKey(leaderboard_cache[i]) = ret.key
          /\ ~IsNull(leaderboard_cache[i].scope_id)
          /\ leaderboard_cache[i].expires_at = now

\* C6 (one cache row per key): the cache holds at most one row per key triple,
\* scope_id absent included, and after a store the row of the stored key holds
\* the data and expires_at of that store.
C6_OneRowPerKey ==
    /\ \A i, j \in DOMAIN leaderboard_cache :
          RowKey(leaderboard_cache[i]) = RowKey(leaderboard_cache[j]) => i = j
    /\ (ret.op = "store" /\ ~ret.raised) =>
          \E i \in DOMAIN leaderboard_cache :
              /\ leaderboard_cache[i].id = ret.cache_id
              /\ RowKey(leaderboard_cache[i]) =
                    [leaderboard_type |-> ret.data.leaderboard_type,
                     scope_id |-> ret.data.scope_id,
                     time_period |-> ret.data.time_period]
              /\ leaderboard_cache[i].leaderboard_data = JsonDumps(ret.data)
              /\ leaderboard_cache[i].expires_at = ret.expires_at

----------------------------------------------------------------------------
(* Properties of the quest progress engine *)

\* the five requirement dimensions, in the order of progress_scores
Dimensions == 1..5

\* whether the target of dimension k is 0
TargetIsZero(req, k) ==
    CASE k = 1 -> req.active_minutes = 0
      [] k = 2 -> req.dp_passes = 0
      [] k = 3 -> req.peer_reviews = 0
      [] k = 4 -> req.session_quality = Zero
      [] k = 5 -> req.consistency_days = 0

\* C3 (zero-target rule): for each of the five dimensions, when the quest's
\* target for it is 0, computeProgress returns normally and the dimension
\* scores exactly 1.
C3_ZeroTargetRule ==
    ret.op = "computeProgress" =>
        \A k \in Dimensions :
            TargetIsZero(ret.quest.requirements, k) =>
                /\ ~ret.result.raised
                /\ ret.result.scores[k] = One

\* C9 (idempotent, side-effect-free scoring): a computeProgress step changes no
\* stored row, and when it repeats the call of an earlier computeProgress with
\* no session write in between (whatever else happened: the clock advancing,
\* other users' and other quests' computations) it returns the identical value.
C9_IdempotentScoring ==
    [][ ret'.op = "computeProgress" =>
            /\ UNCHANGED stores
            /\ ret'.repeat => ret'.result = Val(lastCompute).result
      ]_vars

\* C9 witness: a repeated computeProgress has just returned, for a user with
\* activity in the quest week, after the clock has passed the last session write.
C9_Witness ==
    /\ ret.op = "computeProgress"
    /\ ret.repeat
    /\ ~ret.result.raised
    /\ ret.result.progress.active_minutes > 0
    /\ \A i \in DOMAIN learning_sessions : learning_sessions[i].session_start < now

----------------------------------------------------------------------------
(* Properties of the quest completion records *)

\* C2 (upsert uniqueness): every recordProgress call succeeds and leaves
\* exactly one quest completion row for its (user_id, quest_id), and the
\* progress stored in that row is the progress the call was given.
C2_UpsertUniqueness ==
    ret.op = "recordProgress" =>
        /\ ~ret.raised
        /\ Cardinality(CompletionRows(ret.user_id, ret.quest_id)) = 1
        /\ \A i \in CompletionRows(ret.user_id, ret.quest_id) :
              JsonLoads(quest_completions[i].progress) = ret.progress

----------------------------------------------------------------------------
(* Properties of the leaderboard engine *)

\* the active minutes of the sessions of user u that start in the window of
\* the period
WindowMinutes(u, time_period) ==
    LET S == {i \in DOMAIN learning_sessions :
                 /\ learning_sessions[i].user_id = u
                 /\ learning_sessions[i].session_start >= StartDate(time_period)}
    IN  SumOver(S, [i \in S |-> learning_sessions[i].active_minutes])

\* the quests of user u completed in the window of the period
CompletedQuests(u, time_period) ==
    {j \in DOMAIN quest_completions :
        /\ quest_completions[j].user_id = u
        /\ quest_completions[j].is_completed
        /\ ~IsNull(quest_completions[j].completed_at)
        /\ Val(quest_completions[j].completed_at) >= StartDate(time_period)}

\* C10 (leaderboard exclusion): whatever the type, period and scope, every
\* user listed in the output of compute() has sessions that start in the
\* window and whose active minutes sum to more than 0; completed quests alone
\* never list a user.
C10_LeaderboardExclusion ==
    (ret.op = "compute" /\ ~ret.raised) =>
        \A k \in DOMAIN ret.data.entries :
            WindowMinutes(ret.data.entries[k].user_id, ret.data.time_period) > 0

\* compute() returned a weekly board that lists someone, while a user with two
\* quests completed in the window and no active minute in it is left out
C10_Witness ==
    /\ ret.op = "compute" /\ ~ret.raised
    /\ ret.data.time_period = "weekly"
    /\ ret.call.limit > NumUsers
    /\ ret.data.entries # <<>>
    /\ \E u \in Users :
          /\ \A k \in DOMAIN ret.data.entries : ret.data.entries[k].user_id # u
          /\ Cardinality(CompletedQuests(u, "weekly")) >= 2
          /\ WindowMinutes(u, "weekly") = 0

\* the learners of cohort c
Learners(c) ==
    {u \in Users : \E m \in UserCohorts :
        m.user_id = u /\ m.cohort_id = c /\ m.role = "learner"}

\* C11 (cohort scoping): a cohort board computed for cohort c lists only
\* learners of c with more than 0 active minutes in the window, and lists all
\* of them when fewer than limit users qualify.
C11_CohortScoping ==
    (/\ ret.op = "compute" /\ ~ret.raised
     /\ ret.call.leaderboard_type = "cohort"
     /\ ~IsNull(ret.call.scope_id)) =>
        LET listed == {ret.data.entries[k].user_id : k \in DOMAIN ret.data.entries}
            qualified == {u \in Learners(Val(ret.call.scope_id)) :
                             WindowMinutes(u, ret.call.time_period) > 0}
        IN  /\ listed \subseteq qualified
            /\ Cardinality(qualified) < ret.call.limit => listed = qualified

\* C12 (dense ranks): the rank values of the entries of a computed board are
\* 1, 2, ..., n in list order, without gap or duplicate.
C12_DenseRanks ==
    (ret.op = "compute" /\ ~ret.raised) =>
        \A k \in DOMAIN ret.data.entries : ret.data.entries[k].rank = k

\* a board of two entries that tie in minutes and in quality
C12_Witness ==
    /\ ret.op = "compute" /\ ~ret.raised
    /\ Len(ret.data.entries) = 2
    /\ ret.data.entries[1].active_minutes = ret.data.entries[2].active_minutes
    /\ ret.data.entries[1].session_quality_avg = ret.data.entries[2].session_quality_avg

\* C13 (ranking order): of two entries of a computed board, the earlier one
\* has at least the active minutes of the later one, and at equal minutes at
\* least its average quality.
C13_RankingOrder ==
    (ret.op = "compute" /\ ~ret.raised) =>
        \A i, j \in DOMAIN ret.data.entries :
            i < j =>
                LET a == ret.data.entries[i]
                    b == ret.data.entries[j]
                IN  /\ a.active_minutes >= b.active_minutes
                    /\ a.active_minutes = b.active_minutes =>
                           ~FracLess(a.session_quality_avg, b.session_quality_avg)

\* a board whose two entries tie in minutes, the higher quality first, the
\* user with the larger id leading
C13_Witness ==
    /\ ret.op = "compute" /\ ~ret.raised
    /\ Len(ret.data.entries) = 2
    /\ ret.data.entries[1].active_minutes = ret.data.entries[2].active_minutes
    /\ FracLess(ret.data.entries[2].session_quality_avg,
                ret.data.entries[1].session_quality_avg)
    /\ ret.data.entries[1].user_id > ret.data.entries[2].user_id

\* C14 (limit and participant count): a computed board has at most limit
\* entries, whatever integer limit is, and its total_participants is the
\* number of its entries.
C14_LimitAndCount ==
    (ret.op = "compute" /\ ~ret.raised) =>
        /\ Len(ret.data.entries) <= ret.call.limit
        /\ ret.data.total_participants = Len(ret.data.entries)

----------------------------------------------------------------------------
(* Properties of the admin refresh *)

\* C15 (refresh-all completeness): from any store state the refresh of all
\* leaderboards completes, reports refreshed_count = 15 and leaves, for each
\* of the 15 (leaderboard_type, time_period) pairs, a cache row without scope
\* stored by this refresh.
C15_RefreshAllCompletes ==
    ret.op = "refreshAll" =>
        /\ ~ret.raised
        /\ ret.refreshed_count = 15
        /\ \A t \in LeaderboardTypes, p \in TimePeriods :
              \E i \in DOMAIN leaderboard_cache :
                  /\ leaderboard_cache[i].leaderboard_type = t
                  /\ leaderboard_cache[i].time_period = p
                  /\ IsNull(leaderboard_cache[i].scope_id)
                  /\ leaderboard_cache[i].expires_at = now + Hours(RefreshTtlHours)

\* what calculate_quest_progress observes of the user in the quest week, per
\* dimension, and the targets of the quest, as fractions
Observed(user_id, quest) ==
    LET m == SessionMetrics(user_id, quest)
    IN  << <<m.total_active_minutes, 1>>, Zero, Zero,
           FracDiv(m.avg_quality_score, <<3, 1>>), <<m.consistency_days, 1>> >>

Targets(quest) ==
    << <<quest.requirements.active_minutes, 1>>, <<quest.requirements.dp_passes, 1>>,
       <<quest.requirements.peer_reviews, 1>>, quest.requirements.session_quality,
       <<quest.requirements.consistency_days, 1>> >>

\* C16 (full completion): computeProgress returns completion_percentage = 1.0
\* exactly when every dimension has target 0 or an observed value of at least
\* the target.
C16_FullCompletion ==
    ret.op = "computeProgress" =>
        ((~ret.result.raised /\ ret.result.progress.completion_percentage = One)
         <=>
         \A k \in Dimensions :
            \/ Targets(ret.quest)[k] = Zero
            \/ ~FracLess(Observed(ret.user_id, ret.quest)[k], Targets(ret.quest)[k]))

----------------------------------------------------------------------------
(* Properties of the session metrics *)

\* the mean of {high: 3, medium: 2, low: 1} over the sessions S
MeanQuality(S) ==
    LET points == [i \in S |->
                      CASE learning_sessions[i].session_quality = "high" -> 3
                        [] learning_sessions[i].session_quality = "medium" -> 2
                        [] learning_sessions[i].session_quality = "low" -> 1]
    IN  Frac(SumOver(S, points), Cardinality(S))

\* C17 (quality normalization): over a non-empty set of sessions
\* getSessionMetrics reports the mean of {high: 3, medium: 2, low: 1}, a value
\* in [1, 3], and computeProgress reports that mean divided by 3; over no
\* session both report 0.
C17_QualityNormalization ==
    /\ ret.op = "sessionMetrics" =>
          LET S == MetricSessions(ret.user_id, ret.days)
              avg == ret.metrics.avg_quality_score
          IN  IF S = {} THEN avg = Zero
              ELSE /\ avg = MeanQuality(S)
                   /\ ~FracLess(avg, One) /\ ~FracLess(<<3, 1>>, avg)
    /\ (ret.op = "computeProgress" /\ ~ret.result.raised) =>
          LET S == QuestSessions(ret.user_id, ret.quest)
              avg == ret.result.progress.avg_session_quality
          IN  IF S = {} THEN avg = Zero
              ELSE avg = FracDiv(MeanQuality(S), <<3, 1>>)

\* computeProgress scored three sessions {high, medium, low} at 2/3 while
\* getSessionMetrics has 2.0 for the same sessions
C17_Witness ==
    /\ ret.op = "computeProgress" /\ ~ret.result.raised
    /\ {learning_sessions[i].session_quality :
           i \in QuestSessions(ret.user_id, ret.quest)} = SessionQualities
    /\ Cardinality(QuestSessions(ret.user_id, ret.quest)) = 3
    /\ QuestSessions(ret.user_id, ret.quest)
          = MetricSessions(ret.user_id, DefaultMetricDays)
    /\ UserSessionMetrics(ret.user_id, DefaultMetricDays).avg_quality_score = <<2, 1>>
    /\ ret.result.progress.avg_session_quality = <<2, 3>>

----------------------------------------------------------------------------
(* Properties of the session updates *)

\* C18 (sparse update): an update that supplies fields sets, on the session
\* with the given id, each supplied field to the supplied value and keeps
\* every other field; every other session, and the number of sessions, stay
\* as they were.
C18_SparseUpdate ==
    [][ (ret'.op = "updateSession" /\ ret'.ok) =>
            /\ DOMAIN learning_sessions' = DOMAIN learning_sessions
            /\ \A i \in DOMAIN learning_sessions :
                  IF i = ret'.session_id
                  THEN \A f \in DOMAIN learning_sessions[i] :
                          IF f \in UpdateFields /\ ~IsNull(ret'.request[f])
                          THEN IF f = "session_end"
                               THEN learning_sessions'[i][f] = ret'.request[f]
                               ELSE learning_sessions'[i][f] = Val(ret'.request[f])
                          ELSE learning_sessions'[i][f] = learning_sessions[i][f]
                  ELSE learning_sessions'[i] = learning_sessions[i]
      ]_vars

\* an update of two fields of the second session went through while the first
\* session holds values of its own
C18_Witness ==
    /\ ret.op = "updateSession" /\ ret.ok
    /\ ret.session_id = 2
    /\ Cardinality(SuppliedFields(ret.request)) = 2
    /\ Len(learning_sessions) = 2
    /\ learning_sessions[1].active_minutes = 3
    /\ learning_sessions[2].active_minutes = 0
    /\ learning_sessions[2].session_quality = "low"
    /\ learning_sessions[2].interactions_count = 7

\* C19 (empty update is a no-op): an update that supplies no field returns
\* false without raising and leaves every store as it was, whether or not a
\* session has the id.
C19_EmptyUpdateNoOp ==
    [][ (ret'.op = "updateSession" /\ SuppliedFields(ret'.request) = {}) =>
            /\ ~ret'.ok
            /\ UNCHANGED stores
      ]_vars

\* an empty update of an id no session has returned false
C19_Witness ==
    /\ ret.op = "updateSession" /\ ~ret.ok
    /\ SuppliedFields(ret.request) = {}
    /\ ret.session_id \notin DOMAIN learning_sessions
    /\ learning_sessions # <<>>

\* C20 (not-found on update): an update that supplies a field for an id no
\* session has does not report success: the database function does not return
\* true, and the route answers 404; no session row is created.
C20_UpdateNotFound ==
    /\ (/\ ret.op = "updateSession"
        /\ SuppliedFields(ret.request) # {}
        /\ ret.session_id \notin DOMAIN learning_sessions) => ~ret.ok
    /\ (/\ ret.op = "putSession"
        /\ SuppliedFields(ret.call.request) # {}
        /\ ret.call.session_id \notin DOMAIN learning_sessions) => ret.status = 404

----------------------------------------------------------------------------
(* Properties of the active-session listing *)

\* C21 (active-session listing): listActiveSessions(u) returns a session
\* exactly when its user_id is u and its is_completed is false; so a session
\* is listed from its creation until an update completes it, and again only
\* after an update sets is_completed back to false.
C21_ActiveListing ==
    ret.op = "listActive" =>
        {ret.ids[k] : k \in DOMAIN ret.ids}
            = {i \in DOMAIN learning_sessions :
                  /\ learning_sessions[i].user_id = ret.user_id
                  /\ ~learning_sessions[i].is_completed}

\* the listing of a user with two sessions returned the one still running and
\* left out the completed one
C21_Witness ==
    /\ ret.op = "listActive"
    /\ Len(ret.ids) = 1
    /\ \E i \in DOMAIN learning_sessions :
          /\ learning_sessions[i].user_id = ret.user_id
          /\ learning_sessions[i].is_completed
          /\ learning_sessions[i].active_minutes = 3

----------------------------------------------------------------------------
(* Properties of recordProgress on stored completions *)

\* the columns recordProgress must not decide
RewardColumns == {"is_completed", "completed_at", "points_earned", "badges_earned"}

\* C22 (recordProgress frame): a recordProgress call for a pair leaves
\* is_completed, completed_at, points_earned and badges_earned of the row of
\* the pair as they were (at the defaults of the table when it creates the
\* row), leaves every row of another pair untouched, and adds no row of
\* another pair.
C22_RecordProgressFrame ==
    [][ ret'.op = "recordProgress" =>
            /\ \A i \in DOMAIN quest_completions :
                  /\ i \in DOMAIN quest_completions'
                  /\ \A c \in DOMAIN quest_completions[i] \ {"progress"} :
                        quest_completions'[i][c] = quest_completions[i][c]
                  /\ (~(/\ quest_completions[i].user_id = ret'.user_id
                        /\ quest_completions[i].quest_id = ret'.quest_id))
                        => quest_completions'[i] = quest_completions[i]
            /\ \A i \in DOMAIN quest_completions' \ DOMAIN quest_completions :
                  /\ quest_completions'[i].user_id = ret'.user_id
                  /\ quest_completions'[i].quest_id = ret'.quest_id
                  /\ ~quest_completions'[i].is_completed
                  /\ IsNull(quest_completions'[i].completed_at)
                  /\ quest_completions'[i].points_earned = 0
                  /\ IsNull(quest_completions'[i].badges_earned)
      ]_vars

\* a call that brought full progress created the row of its pair beside
\* completed rows of other pairs
C22_Witness ==
    /\ ret.op = "recordProgress" /\ ~ret.raised
    /\ ret.progress.completion_percentage = One
    /\ Len(quest_completions) >= 4
    /\ \E i \in DOMAIN quest_completions :
          quest_completions[i].is_completed /\ quest_completions[i].user_id = ret.user_id

----------------------------------------------------------------------------
(* C23: Whatever the interleaving of concurrent recordProgress calls for one
   (user_id, quest_id) pair that had no row, the table holds at most one row
   for the pair, exactly one once a call has returned; exactly one of the
   returned calls succeeded, its progress is the one stored, and every other
   returned call raised to its caller. *)
DoneRecords(user_id, quest_id) ==
    {c \in Callers : /\ inflight[c].pc = "done"
                     /\ inflight[c].op = "recordProgress"
                     /\ inflight[c].user_id = user_id
                     /\ inflight[c].quest_id = quest_id}

C23_ConcurrentFirstWriters ==
    \A u \in Users, q \in QuestIds :
        LET rows == CompletionRows(u, q)
            done == DoneRecords(u, q)
            succeeded == {c \in done : ~inflight[c].raised}
        IN  /\ Cardinality(rows) <= 1
            /\ done # {} => Cardinality(rows) = 1
            /\ done # {} => Cardinality(succeeded) = 1
            /\ \A c \in succeeded, i \in rows :
                  quest_completions[i].progress = JsonDumps(inflight[c].progress)

\* both calls read "no row" before either wrote; both have returned
C23_Witness ==
    \E u \in Users, q \in QuestIds :
        \E c1, c2 \in DoneRecords(u, q) :
            /\ c1 # c2
            /\ ~inflight[c1].existing /\ ~inflight[c2].existing
            /\ ~inflight[c1].raised
            /\ inflight[c2].error = "IntegrityError"

----------------------------------------------------------------------------
(* C24: Whatever the interleaving of concurrent redeem calls on one token, at
   most one of them returns true. *)
TrueRedeems(token_id) ==
    {c \in Callers : /\ inflight[c].pc = "done"
                     /\ inflight[c].op = "redeem"
                     /\ inflight[c].token_id = token_id
                     /\ inflight[c].ok}

C24_ConcurrentRedemption ==
    \A t \in DOMAIN grace_tokens : Cardinality(TrueRedeems(t)) <= 1

----------------------------------------------------------------------------
(* Properties of the session ledger *)

\* C25 (completed sessions are frozen): no step changes a field of a session
\* whose is_completed is true.
C25_CompletedFrozen ==
    [][\A i \in DOMAIN learning_sessions :
          learning_sessions[i].is_completed =>
              learning_sessions'[i] = learning_sessions[i]]_vars

\* C26 (session minutes): every stored session has active_minutes at most
\* total_minutes.
C26_MinutesInvariant ==
    \A i \in DOMAIN learning_sessions :
        learning_sessions[i].active_minutes <= learning_sessions[i].total_minutes

InUnitInterval(x) == ~FracLess(x, Zero) /\ ~FracLess(One, x)

\* C27 (score range): a progress that computeProgress returns has every
\* per-dimension score and the completion_percentage within [0, 1].
C27_ScoreRange ==
    (ret.op = "computeProgress" /\ ~ret.result.raised) =>
        /\ \A k \in Dimensions : InUnitInterval(ret.result.scores[k])
        /\ InUnitInterval(ret.result.progress.completion_percentage)

----------------------------------------------------------------------------
(* Properties of the leaderboard read path *)

\* the fields of a LeaderboardData the round trip is to keep
BoardView(d) ==
    [leaderboard_type |-> d.leaderboard_type, scope_id |-> d.scope_id,
     time_period |-> d.time_period, entries |-> d.entries,
     total_participants |-> d.total_participants]

\* C28 (leaderboard round trip): when get-leaderboard computes a board, storing
\* it succeeds, and the cache then serves for the key a board equal to it in
\* type, scope, period, entries and total_participants.
C28_RoundTrip ==
    (ret.op = "getLeaderboard" /\ ~ret.hit /\ ret.failed # "compute") =>
        /\ ret.failed = "none"
        /\ LET rows == CachedRows(ret.call.leaderboard_type, ret.call.time_period,
                                  ret.call.scope_id)
           IN  /\ rows # {}
               /\ \A i \in rows :
                     BoardView(JsonLoads(leaderboard_cache[i].leaderboard_data))
                         = BoardView(Val(ret.leaderboard))

\* the instant a LeaderboardData was computed at
ComputedAt(d) ==
    IF "datetime" \in DOMAIN d.last_updated
    THEN d.last_updated.datetime ELSE d.last_updated.isoformat

\* C29 (bounded staleness): a get-leaderboard whose query is well formed
\* returns a board, and the board was computed at most one cache TTL before
\* now, so that it reflects every session write older than the TTL.
C29_BoundedStaleness ==
    (ret.op = "getLeaderboard" /\ ret.failed # "compute") =>
        /\ ret.status = 200
        /\ now - ComputedAt(Val(ret.leaderboard)) <= Hours(RefreshTtlHours)

\* C30 (independent aggregates): every entry of a computed board carries as
\* active_minutes and as score the sum of the active minutes of the user's
\* sessions that start in the window, and as quests_completed the number of
\* the user's quests completed in the window.
C30_IndependentAggregates ==
    (ret.op = "compute" /\ ~ret.raised) =>
        \A k \in DOMAIN ret.data.entries :
            LET e == ret.data.entries[k]
            IN  /\ e.active_minutes = WindowMinutes(e.user_id, ret.data.time_period)
                /\ e.score = WindowMinutes(e.user_id, ret.data.time_period)
                /\ e.quests_completed =
                      Cardinality(CompletedQuests(e.user_id, ret.data.time_period))

----------------------------------------------------------------------------
(* Properties of quests whose requirements the core cannot observe *)

\* the number of the two placeholder dimensions the quest has a positive target in
PendingTargets(quest) ==
    (IF quest.requirements.dp_passes > 0 THEN 1 ELSE 0)
    + (IF quest.requirements.peer_reviews > 0 THEN 1 ELSE 0)

\* C32 (unreachable completion): for a quest with a positive dp_passes or
\* peer_reviews target computeProgress returns a completion_percentage below
\* 1.0: at most 0.8 with one of the two positive, at most 0.6 with both.
C32_UnreachableCompletion ==
    (ret.op = "computeProgress" /\ ~ret.result.raised
     /\ PendingTargets(ret.quest) > 0) =>
        LET c == ret.result.progress.completion_percentage
        IN  /\ FracLess(c, One)
            /\ ~FracLess(<<4, 5>>, c)
            /\ PendingTargets(ret.quest) = 2 => ~FracLess(<<3, 5>>, c)

\* a quest that asks for DP passes only is scored 0.8 with every observable
\* dimension met
C32_Witness ==
    /\ ret.op = "computeProgress" /\ ~ret.result.raised
    /\ PendingTargets(ret.quest) = 1
    /\ ret.result.progress.completion_percentage = <<4, 5>>
    /\ ret.result.progress.active_minutes >= ret.quest.requirements.active_minutes

----------------------------------------------------------------------------
(* Further properties of the grace token ledger *)

\* the token is unused and its expires_at has passed at instant t
Lapsed(tok, t) ==
    /\ ~tok.is_used
    /\ ~IsNull(tok.expires_at)
    /\ Val(tok.expires_at) < t

\* C35 (failed redemption changes nothing): a redeem that returns false leaves
\* every token row as it was, and no step takes a never-used token whose
\* expires_at has passed out of is_used = false, used_date absent.
C35_FailedRedeemNoChange ==
    [][ /\ (ret'.op = "redeem" /\ ~ret'.ok) => grace_tokens' = grace_tokens
        /\ \A t \in DOMAIN grace_tokens :
              (Lapsed(grace_tokens[t], now) /\ IsNull(grace_tokens[t].used_date)) =>
                  /\ ~grace_tokens'[t].is_used
                  /\ IsNull(grace_tokens'[t].used_date)
      ]_vars

\* a redeem of a never-used token whose expires_at has passed has just
\* returned false
C35_Witness ==
    /\ ret.op = "redeem"
    /\ ~ret.ok
    /\ ret.token_id \in DOMAIN grace_tokens
    /\ Lapsed(grace_tokens[ret.token_id], now)
    /\ IsNull(grace_tokens[ret.token_id].used_date)

\* used_date is present exactly on the used tokens
UsedDateIffUsed(tokens) ==
    \A t \in DOMAIN tokens : ~IsNull(tokens[t].used_date) <=> tokens[t].is_used

\* C36 (token ledger invariant): in every state used_date is present exactly
\* on the tokens with is_used = true; a grant creates its token with
\* is_used = false; a redeem changes no token but the one it names.
C36_LedgerInvariant ==
    /\ UsedDateIffUsed(grace_tokens)
    /\ [][ /\ UsedDateIffUsed(grace_tokens')
           /\ ret'.op = "grant" =>
                 /\ ret'.token_id \notin DOMAIN grace_tokens
                 /\ ~grace_tokens'[ret'.token_id].is_used
                 /\ \A t \in DOMAIN grace_tokens : grace_tokens'[t] = grace_tokens[t]
           /\ ret'.op = "redeem" =>
                 \A t \in DOMAIN grace_tokens :
                     t # ret'.token_id => grace_tokens'[t] = grace_tokens[t]
         ]_vars

\* a redeem has just returned true while the ledger holds another token,
\* still unused
C36_Witness ==
    /\ ret.op = "redeem"
    /\ ret.ok
    /\ \E t \in DOMAIN grace_tokens :
          /\ t # ret.token_id
          /\ ~grace_tokens[t].is_used
          /\ IsNull(grace_tokens[t].used_date)

----------------------------------------------------------------------------
(* Non-interference of the scoring *)

\* the sessions a step created or changed
Touched ==
    {i \in DOMAIN learning_sessions' :
        \/ i \notin DOMAIN learning_sessions
        \/ learning_sessions'[i] # learning_sessions[i]}

\* session_start lies within [week_start 00:00, week_end end of day]
StartsInWeek(session, quest) ==
    /\ Days(quest.week_start) <= session.session_start
    /\ session.session_start < Days(quest.week_end + 1)

\* C37 (window non-interference): a step that creates or updates only
\* sessions of other users, or sessions of u that start outside the week of q,
\* leaves what computeProgress(u, q) returns unchanged: the QuestProgress
\* computed from the row fetched after the step is the one computed from the
\* row fetched before it.
C37_WindowNonInterference ==
    [][ \A u \in Users, q \in WindowQuests :
           (\A i \in Touched :
               \/ learning_sessions'[i].user_id # u
               \/ ~StartsInWeek(learning_sessions'[i], q)) =>
               \A before \in {SessionMetrics(u, q)}, after \in {SessionMetrics(u, q)'} :
                   ProgressOf(after, q) = ProgressOf(before, q)
      ]_vars

\* an update has just changed the active minutes of a session that starts
\* after the week of a quest, for a user who has active minutes inside it
C37_Witness ==
    /\ ret.op = "updateSession"
    /\ ret.ok
    /\ ret.session_id \in DOMAIN learning_sessions
    /\ learning_sessions[ret.session_id].active_minutes > 0
    /\ \E q \in WindowQuests, i \in DOMAIN learning_sessions :
          /\ ~StartsInWeek(learning_sessions[ret.session_id], q)
          /\ learning_sessions[i].user_id = learning_sessions[ret.session_id].user_id
          /\ StartsInWeek(learning_sessions[i], q)
          /\ learning_sessions[i].active_minutes > 0

----------------------------------------------------------------------------
(* Properties of the update-progress route *)

\* C31: every stored QuestCompletion row has is_completed = false and no
\* completed_at, also once the update-progress route has answered
\* is_completed = true; every entry of a board computed from such a state has
\* quests_completed = 0.
C31_NeverMarkedCompleted ==
    /\ \A i \in DOMAIN quest_completions :
          /\ ~quest_completions[i].is_completed
          /\ IsNull(quest_completions[i].completed_at)
    /\ (ret.op = "compute" /\ ~ret.raised) =>
          \A k \in DOMAIN ret.data.entries : ret.data.entries[k].quests_completed = 0

\* a board has just been computed that lists a learner whose stored progress
\* on a quest is full
C31_Witness ==
    /\ ret.op = "compute" /\ ~ret.raised
    /\ \E k \in DOMAIN ret.data.entries, i \in DOMAIN quest_completions :
          /\ quest_completions[i].user_id = ret.data.entries[k].user_id
          /\ JsonLoads(quest_completions[i].progress).completion_percentage = One

\* quest_id names a quest that is switched on and whose week holds today
CurrentlyActive(quest_id) ==
    /\ quest_id \in DOMAIN weekly_quests
    /\ weekly_quests[quest_id].is_active
    /\ weekly_quests[quest_id].week_start <= now \div DayTicks
    /\ now \div DayTicks <= weekly_quests[quest_id].week_end

\* C34 (ended quests are frozen): update-progress for a quest that is not
\* currently active fails and leaves every QuestCompletion row as it was, none
\* added; a stored row stays readable through get-progress.
C34_EndedQuestsFrozen ==
    [][ /\ (ret'.op = "updateProgress" /\ ~CurrentlyActive(ret'.quest_id)) =>
              /\ ret'.status # 200
              /\ quest_completions' = quest_completions
        /\ ret'.op = "getProgress" =>
              \A i \in DOMAIN quest_completions :
                  (/\ quest_completions[i].user_id = ret'.user_id
                   /\ quest_completions[i].quest_id = ret'.quest_id) =>
                      /\ ~IsNull(ret'.completion)
                      /\ Val(ret'.completion).progress =
                            JsonLoads(quest_completions[i].progress)
      ]_vars

\* update-progress has just failed for a quest whose week_end has passed and
\* on which the learner has stored progress
C34_Witness ==
    /\ ret.op = "updateProgress"
    /\ ret.status = 400
    /\ ret.failed = "quest not found"
    /\ ret.quest_id \in DOMAIN weekly_quests
    /\ weekly_quests[ret.quest_id].is_active
    /\ weekly_quests[ret.quest_id].week_end < now \div DayTicks
    /\ \E i \in DOMAIN quest_completions :
          /\ quest_completions[i].user_id = ret.user_id
          /\ quest_completions[i].quest_id = ret.quest_id

----------------------------------------------------------------------------
(* Further properties of the leaderboard read path *)

\* C33 (limit on cached answers): a board that get-leaderboard returns for a
\* call with limit L has at most L entries, whether computed or served from
\* the cache.
C33_LimitOnCachedAnswers ==
    (ret.op = "getLeaderboard" /\ ret.status = 200) =>
        Len(Val(ret.leaderboard).entries) <= ret.call.limit

====
